---- MODULE Spec2Model ----
(***************************************************************************)
(* The spreadsheet normalisation pipeline of src/robust_excel_parser.py    *)
(* (class RobustExcelParser and load_excel_data) as a state machine.       *)
(*                                                                         *)
(* Text is a sequence of one-character strings, so that the string         *)
(* operations of the source (lower, strip, "in", re.sub, float) are        *)
(* computed and not assumed.  A cell of the raw grid is a record           *)
(*   [t, m, e, s]  with t = "nan" (an empty cell, float NaN),              *)
(*                      t = "num" (the number m * 10^e, m not ending in 0),*)
(*                      t = "inf" (float infinity of sign m),              *)
(*                      t = "str" (the text s).                            *)
(* t = "raise" stands for an exception leaving the function.               *)
(***************************************************************************)
EXTENDS Integers, Sequences, FiniteSets, TLC

VARIABLES
  call,                 \* the call under way: the function and its arguments
  ret,                  \* what the call returned or raised, Pending before
  pc,                   \* the statement load_excel_data has reached
  section,              \* the section being parsed or validated
  df_raw,               \* load_excel_data's df_raw
  header_row,           \* the section parser's locals
  start_row,
  end_row,
  df_section,
  parsed,               \* revenue_df, costs_df, hours_df
  validation_warnings,  \* the parser's self.validation_warnings
  parsing_log,          \* the parser's self.parsing_log
  invocations           \* the other load_excel_data calls of the process

uvars == <<call, ret>>

pvars == <<pc, section, df_raw, header_row, start_row, end_row, df_section,
           parsed, validation_warnings, parsing_log, invocations>>

vars == <<call, ret, pc, section, df_raw, header_row, start_row, end_row,
          df_section, parsed, validation_warnings, parsing_log, invocations>>

\* no other call: none waiting for the processor, none finished
NoInvocations == [waiting |-> <<>>, finished |-> {}]

(***************************************************************************)
(* Text primitives (Python str).                                           *)
(***************************************************************************)
UpperLetters ==
  <<"A","B","C","D","E","F","G","H","I","J","K","L","M",
    "N","O","P","Q","R","S","T","U","V","W","X","Y","Z">>

LowerLetters ==
  <<"a","b","c","d","e","f","g","h","i","j","k","l","m",
    "n","o","p","q","r","s","t","u","v","w","x","y","z">>

DigitChars == <<"0","1","2","3","4","5","6","7","8","9">>

Whitespace == {" ", "\t", "\n"}

LowerChar(c) ==
  IF \E i \in 1..26 : UpperLetters[i] = c
  THEN LowerLetters[CHOOSE i \in 1..26 : UpperLetters[i] = c]
  ELSE c

\* str.lower()
StrLower(s) == [i \in 1..Len(s) |-> LowerChar(s[i])]

\* str.strip()
StrStrip(s) ==
  LET keep == {i \in 1..Len(s) : s[i] \notin Whitespace}
  IN  IF keep = {} THEN <<>>
      ELSE SubSeq(s, CHOOSE i \in keep : \A j \in keep : i <= j,
                     CHOOSE i \in keep : \A j \in keep : i >= j)

\* needle in hay
Contains(needle, hay) ==
  \E i \in 0..(Len(hay) - Len(needle)) : SubSeq(hay, i + 1, i + Len(needle)) = needle

\* re.sub(r'[...]', '', s) and str.replace(c, '') for one-character patterns
RemoveChars(s, chars) == SelectSeq(s, LAMBDA c : c \notin chars)

\* the least index of s holding a character of chars, 0 when there is none
FirstIndex(s, chars) ==
  LET hit == {i \in 1..Len(s) : s[i] \in chars}
  IN  IF hit = {} THEN 0 ELSE CHOOSE i \in hit : \A j \in hit : i <= j

(***************************************************************************)
(* Numbers (Python float, kept as an exact decimal m * 10^e).              *)
(***************************************************************************)
RECURSIVE Pow10(_)
Pow10(k) == IF k <= 0 THEN 1 ELSE 10 * Pow10(k - 1)

RECURSIVE NumDigits(_)
NumDigits(n) == IF n < 10 THEN 1 ELSE 1 + NumDigits(n \div 10)

RECURSIVE Norm(_, _)
Norm(m, e) ==
  IF m = 0 THEN <<0, 0>>
  ELSE IF m % 10 = 0 THEN Norm(m \div 10, e + 1)
  ELSE <<m, e>>

NaN == [t |-> "nan", m |-> 0, e |-> 0, s |-> <<>>]

Num(m, e) == [t |-> "num", m |-> Norm(m, e)[1], e |-> Norm(m, e)[2], s |-> <<>>]

Inf(sign) == [t |-> "inf", m |-> sign, e |-> 0, s |-> <<>>]

Text(s) == [t |-> "str", m |-> 0, e |-> 0, s |-> s]

ValueError == [t |-> "raise", m |-> 0, e |-> 0, s |-> <<"V","a","l","u","e","E","r","r","o","r">>]

Pending == [t |-> "pending", m |-> 0, e |-> 0, s |-> <<>>]

\* pd.isna(value) of a scalar
IsNa(v) == v.t = "nan"

\* isinstance(val, (int, float, np.number)): NaN and infinity are floats
IsNumericTyped(v) == v.t \in {"num", "nan", "inf"}

RECURSIVE Digits(_)
Digits(n) ==
  IF n < 10 THEN <<DigitChars[n + 1]>>
  ELSE Append(Digits(n \div 10), DigitChars[(n % 10) + 1])

PadZeros(s, width) == [i \in 1..(width - Len(s)) |-> "0"] \o s

Abs(n) == IF n < 0 THEN -n ELSE n

\* str(value) of a number: an integer prints as an int, any other value as
\* repr(float) in positional notation (the magnitudes of the model stay
\* within 1e-4 .. 1e16, where Python uses no exponent).
FormatNum(m, e) ==
  LET sign == IF m < 0 THEN <<"-">> ELSE <<>>
      a    == Abs(m)
  IN  IF e >= 0 THEN sign \o Digits(a * Pow10(e))
      ELSE sign \o Digits(a \div Pow10(-e)) \o <<".">>
                \o PadZeros(Digits(a % Pow10(-e)), -e)

\* str(value)
PyStr(v) ==
  CASE v.t = "str" -> v.s
    [] v.t = "num" -> FormatNum(v.m, v.e)
    [] v.t = "inf" -> IF v.m < 0 THEN <<"-","i","n","f">> ELSE <<"i","n","f">>
    [] OTHER       -> <<"n","a","n">>

IsDigit(c) == \E i \in 1..10 : DigitChars[i] = c

DigitVal(c) == (CHOOSE i \in 1..10 : DigitChars[i] = c) - 1

\* digit (["_"] digit)* : the digit groups float() accepts
ValidDigitPart(s) ==
  /\ Len(s) > 0
  /\ \A i \in 1..Len(s) : IsDigit(s[i]) \/ s[i] = "_"
  /\ IsDigit(s[1])
  /\ IsDigit(s[Len(s)])
  /\ \A i \in 1..(Len(s) - 1) : ~(s[i] = "_" /\ s[i + 1] = "_")

RECURSIVE DigitsValue(_)
DigitsValue(s) ==
  IF s = <<>> THEN 0
  ELSE 10 * DigitsValue(SubSeq(s, 1, Len(s) - 1)) + DigitVal(s[Len(s)])

\* The float nearest to sign * mant * 10^expo: infinity from 2^1024 - 2^970
\* (1.7976931348623158e308) on, zero below the subnormals; rounding within
\* the subnormals is not modelled.
MakeFloat(sign, mant, expo) ==
  IF mant = 0 THEN Num(0, 0)
  ELSE LET n  == Norm(mant, expo)
           nd == NumDigits(n[1])
           mag == nd + n[2]
       IN  IF mag > 309 \/ (mag = 309 /\ n[1] * Pow10(9 - nd) >= 179769314)
           THEN Inf(sign)
           ELSE IF mag < -323 THEN Num(0, 0)
           ELSE Num(sign * n[1], n[2])

\* float(s) of a string: [sign] (inf | infinity | nan), or
\* [sign] (digits [. [digits]] | . digits) [e [sign] digits]; anything else
\* raises ValueError.
PyFloat(s0) ==
  LET s       == StrStrip(s0)
      hasSign == Len(s) > 0 /\ s[1] \in {"+", "-"}
      sign    == IF hasSign /\ s[1] = "-" THEN -1 ELSE 1
      body    == StrLower(IF hasSign THEN Tail(s) ELSE s)
      ePos    == FirstIndex(body, {"e"})
      mant    == IF ePos = 0 THEN body ELSE SubSeq(body, 1, ePos - 1)
      expo    == IF ePos = 0 THEN <<>> ELSE SubSeq(body, ePos + 1, Len(body))
      eSigned == Len(expo) > 0 /\ expo[1] \in {"+", "-"}
      eSign   == IF eSigned /\ expo[1] = "-" THEN -1 ELSE 1
      eDigits == IF eSigned THEN Tail(expo) ELSE expo
      dot     == FirstIndex(mant, {"."})
      ip      == IF dot = 0 THEN mant ELSE SubSeq(mant, 1, dot - 1)
      fp      == IF dot = 0 THEN <<>> ELSE SubSeq(mant, dot + 1, Len(mant))
      okMant  == /\ ip # <<>> \/ fp # <<>>
                 /\ ip = <<>> \/ ValidDigitPart(ip)
                 /\ fp = <<>> \/ ValidDigitPart(fp)
      okExp   == ePos = 0 \/ ValidDigitPart(eDigits)
      fDigits == RemoveChars(fp, {"_"})
      eVal    == IF ePos = 0 THEN 0 ELSE eSign * DigitsValue(RemoveChars(eDigits, {"_"}))
  IN  IF body \in {<<"i","n","f">>, <<"i","n","f","i","n","i","t","y">>} THEN Inf(sign)
      ELSE IF body = <<"n","a","n">> THEN NaN
      ELSE IF ~(okMant /\ okExp) THEN ValueError
      ELSE MakeFloat(sign, DigitsValue(RemoveChars(ip, {"_"}) \o fDigits),
                     eVal - Len(fDigits))

(***************************************************************************)
(* Value Cleaner.                                                          *)
(***************************************************************************)
\* a character class that leaves the thousands separator in place
CleanedCharsKeepComma == {"£", "$", "€"} \cup Whitespace

\* the characters re.sub(r'[£$€,\s]', '', val_str) removes
CleanedChars == {"£", "$", "€", ","} \cup Whitespace

\* float(val_str) without the except clause: the ValueError leaves the function
FloatUncaught(val_str) == PyFloat(val_str)

\* float(val_str) under "except (ValueError, TypeError): return np.nan"
FloatOrNaN(val_str) ==
  IF PyFloat(val_str).t = "raise" THEN NaN ELSE PyFloat(val_str)

clean_numeric_value(value) ==
  IF IsNa(value) THEN NaN
  ELSE LET stripped == RemoveChars(StrStrip(PyStr(value)), CleanedChars)
           val_str  == IF Contains(<<"(">>, stripped) /\ Contains(<<")">>, stripped)
                       THEN <<"-">> \o RemoveChars(stripped, {"(", ")"})
                       ELSE stripped
       IN  FloatOrNaN(val_str)

(***************************************************************************)
(* Fuzzy Matcher.  A score is the rational n / d (d > 0): 1.0 is 1/1, 0.9  *)
(* is 9/10 and SequenceMatcher.ratio() is 2 * matches / (len(a) + len(b)). *)
(***************************************************************************)
Score(n, d) == [n |-> n, d |-> d]

ScoreGT(x, y) == x.n * y.d > y.n * x.d

ScoreGE(x, y) == x.n * y.d >= y.n * x.d

ScoreEQ(x, y) == x.n * y.d = y.n * x.d

\* the length of the longest common block starting at a[i] and b[j]
RECURSIVE CommonPrefix(_, _, _, _, _, _)
CommonPrefix(a, i, ahi, b, j, bhi) ==
  IF i > ahi \/ j > bhi THEN 0
  ELSE IF a[i] # b[j] THEN 0
  ELSE 1 + CommonPrefix(a, i + 1, ahi, b, j + 1, bhi)

\* SequenceMatcher.find_longest_match on a[alo..ahi], b[blo..bhi] (1-based,
\* inclusive; no junk): the longest common block, the one starting earliest
\* in a, and of those the one starting earliest in b.  <<i, j, k>>, k = 0
\* when the ranges share no character.
FindLongestMatch(a, alo, ahi, b, blo, bhi) ==
  LET starts == {x \in (alo..ahi) \X (blo..bhi) : a[x[1]] = b[x[2]]}
      blocks == {<<x[1], x[2], CommonPrefix(a, x[1], ahi, b, x[2], bhi)>> : x \in starts}
      better(x, y) == \/ x[3] > y[3]
                      \/ x[3] = y[3] /\ x[1] < y[1]
                      \/ x[3] = y[3] /\ x[1] = y[1] /\ x[2] <= y[2]
  IN  IF blocks = {} THEN <<alo, blo, 0>>
      ELSE CHOOSE x \in blocks : \A y \in blocks : better(x, y)

\* SequenceMatcher.get_matching_blocks: the total size of the blocks found
\* by splitting around the longest match, left and right
RECURSIVE MatchingSize(_, _, _, _, _, _)
MatchingSize(a, alo, ahi, b, blo, bhi) ==
  IF alo > ahi \/ blo > bhi THEN 0
  ELSE LET x == FindLongestMatch(a, alo, ahi, b, blo, bhi)
       IN  IF x[3] = 0 THEN 0
           ELSE x[3] + MatchingSize(a, alo, x[1] - 1, b, blo, x[2] - 1)
                     + MatchingSize(a, x[1] + x[3], ahi, b, x[2] + x[3], bhi)

\* SequenceMatcher(None, a, b).ratio()
SequenceRatio(a, b) ==
  IF Len(a) + Len(b) = 0 THEN Score(1, 1)
  ELSE Score(2 * MatchingSize(a, 1, Len(a), b, 1, Len(b)), Len(a) + Len(b))

ExactScore == Score(1, 1)

ContainmentScore == Score(9, 10)

\* a comparison that trims but does not lower-case
fuzzy_match_case_sensitive(text, target) ==
  LET text_norm   == StrStrip(text)
      target_norm == StrStrip(target)
  IN  IF text_norm = target_norm THEN ExactScore
      ELSE IF Contains(target_norm, text_norm) \/ Contains(text_norm, target_norm)
           THEN ContainmentScore
      ELSE SequenceRatio(text_norm, target_norm)

fuzzy_match(text, target) ==
  LET text_norm   == StrStrip(StrLower(text))
      target_norm == StrStrip(StrLower(target))
  IN  IF text_norm = target_norm THEN ExactScore
      ELSE IF Contains(target_norm, text_norm) \/ Contains(text_norm, target_norm)
           THEN ContainmentScore
      ELSE SequenceRatio(text_norm, target_norm)

\* self.fuzzy_threshold = 0.75
fuzzy_threshold == Score(3, 4)

NoMatch == [found |-> FALSE, match |-> <<>>, score |-> Score(0, 1)]

\* "if score >= best_score": the last of several equal candidates wins
ImprovesOrEquals(score, best_score) == ScoreGE(score, best_score)

\* "if score > best_score": whether a later candidate replaces the best so far
Improves(score, best_score) == ScoreGT(score, best_score)

\* the loop "for candidate in candidates" from its i-th candidate on
RECURSIVE BestLoop(_, _, _, _)
BestLoop(text_str, candidates, i, best) ==
  IF i > Len(candidates) THEN best
  ELSE LET score == fuzzy_match(text_str, candidates[i])
       IN  BestLoop(text_str, candidates, i + 1,
                    IF Improves(score, best.score)
                    THEN [found |-> TRUE, match |-> candidates[i], score |-> score]
                    ELSE best)

\* text is a cell (a label may be empty, i.e. NaN); the result is NoMatch for
\* None and [found, match, score] for the pair (best_match, best_score)
find_best_match(text, candidates) ==
  IF candidates = <<>> \/ IsNa(text) THEN NoMatch
  ELSE LET text_str == StrStrip(PyStr(text))
           best     == BestLoop(text_str, candidates, 1, NoMatch)
       IN  IF text_str = <<>> THEN NoMatch
           ELSE IF ScoreGE(best.score, fuzzy_threshold) THEN best
           ELSE NoMatch

(***************************************************************************)
(* The raw grid and tables.  A grid (pd.read_excel(..., header=None)) is a *)
(* sequence of rows, each a sequence of cells; source row idx (0-based) is *)
(* element idx + 1.  A table (DataFrame) is                                *)
(*   [columns |-> labels, rows |-> <<[idx, src, cells], ...>>]             *)
(* where idx is the row's index label and src the raw-grid row it was      *)
(* sliced from (src is kept through reset_index, which renumbers idx).     *)
(***************************************************************************)
Some(v) == [some |-> TRUE, v |-> v]

None == [some |-> FALSE, v |-> 0]

\* len(df.columns) of a header-less grid
GridWidth(df) == IF df = <<>> THEN 0 ELSE Len(df[1])

\* df.iloc[idx] for 0 <= idx < len(df)
GridRow(df, idx) == df[idx + 1]

\* row.notna().sum()
NonEmptyCount(row) == Cardinality({i \in 1..Len(row) : ~IsNa(row[i])})

Min2(a, b) == IF a <= b THEN a ELSE b

Max2(a, b) == IF a >= b THEN a ELSE b

\* the bound of a Python slice clamped to a sequence of length n
SliceBound(i, n) == IF i < 0 THEN Max2(n + i, 0) ELSE Min2(i, n)

\* df.iloc[start:stop] as a table with the default column labels 0..n-1
IlocSlice(df, start, stop) ==
  LET lo == SliceBound(start, Len(df))
      hi == SliceBound(stop, Len(df))
  IN  [columns |-> [c \in 1..GridWidth(df) |-> Num(c - 1, 0)],
       rows    |-> [k \in 1..Max2(hi - lo, 0) |->
                      [idx |-> lo + k - 1, src |-> lo + k - 1, cells |-> df[lo + k]]]]

(***************************************************************************)
(* Structural Detector.                                                    *)
(***************************************************************************)
\* find_header_row's "return None"
NotFound == -1

\* search_end: int = 20
DefaultSearchEnd == 20

\* expected_cols: int = 4
DefaultExpectedCols == 4

\* df.iloc[idx].astype(str).str.lower().str.strip()
RowValues(row) == [i \in 1..Len(row) |-> StrStrip(StrLower(PyStr(row[i])))]

\* sum(1 for kw in keywords if any(kw.lower() in val for val in row_values))
KeywordMatches(keywords, row_values) ==
  Cardinality({k \in 1..Len(keywords) :
                 \E i \in 1..Len(row_values) : Contains(StrLower(keywords[k]), row_values[i])})

\* the loop "for idx in range(search_start, min(search_end, len(df)))" from idx on
RECURSIVE HeaderScan(_, _, _, _)
HeaderScan(df, keywords, idx, stop) ==
  IF idx >= stop THEN NotFound
  ELSE IF KeywordMatches(keywords, RowValues(GridRow(df, idx))) >= Min2(2, Len(keywords))
       THEN idx
  ELSE HeaderScan(df, keywords, idx + 1, stop)

\* a search that runs to the last row of the grid and ignores search_end
find_header_row_to_last_row(df, keywords, search_start, search_end) ==
  HeaderScan(df, keywords, search_start, Len(df))

find_header_row(df, keywords, search_start, search_end) ==
  HeaderScan(df, keywords, search_start, Min2(search_end, Len(df)))

\* a comparison that also calls a row with exactly expected_cols cells sparse
IsSparseOrEqual(df, i, expected_cols) == NonEmptyCount(GridRow(df, i)) <= expected_cols

\* df.iloc[i].notna().sum() < expected_cols
IsSparse(df, i, expected_cols) == NonEmptyCount(GridRow(df, i)) < expected_cols

\* what detect_data_boundaries does at a sparse row idx: TRUE when the block
\* ends before idx
EndsBlock(df, idx, expected_cols) ==
  IF idx + 2 < Len(df)
  THEN \A i \in idx..(Min2(idx + 3, Len(df)) - 1) : IsSparse(df, i, expected_cols)
  ELSE TRUE

\* the loop "for idx in range(start_row, len(df))" from idx on: end_row, or
\* None (here: len(df) - 1, assigned after the loop)
RECURSIVE BoundaryScan(_, _, _)
BoundaryScan(df, idx, expected_cols) ==
  IF idx >= Len(df) THEN Len(df) - 1
  ELSE IF IsSparse(df, idx, expected_cols) /\ EndsBlock(df, idx, expected_cols)
       THEN idx - 1
  ELSE BoundaryScan(df, idx + 1, expected_cols)

\* <<start_row, end_row>>
detect_data_boundaries(df, header, expected_cols) ==
  <<header + 1, BoundaryScan(df, header + 1, expected_cols)>>

\* the last non-empty cell among cells[1..i], NaN when there is none
\* a fill that reaches one cell only (limit=1)
PreviousValid(cells, i) ==
  IF ~IsNa(cells[i]) THEN cells[i]
  ELSE IF i > 1 THEN cells[i - 1]
  ELSE NaN

LastValid(cells, i) ==
  LET valid == {j \in 1..i : ~IsNa(cells[j])}
  IN  IF valid = {} THEN NaN
      ELSE cells[CHOOSE j \in valid : \A k \in valid : j >= k]

\* fillna(method='ffill', axis=1)
FFillRows(rows) ==
  [r \in 1..Len(rows) |->
     [rows[r] EXCEPT !.cells = [c \in 1..Len(rows[r].cells) |-> LastValid(rows[r].cells, c)]]]

\* fillna(method='ffill', axis=0)
FFillColumns(rows) ==
  [r \in 1..Len(rows) |->
     [rows[r] EXCEPT !.cells =
        [c \in 1..Len(rows[r].cells) |->
           LastValid([k \in 1..r |-> rows[k].cells[c]], r)]]]

RECURSIVE SumSeq(_)
SumSeq(s) == IF s = <<>> THEN 0 ELSE s[1] + SumSeq(Tail(s))

\* df_section.isna().sum().sum()
NaCount(rows) ==
  SumSeq([r \in 1..Len(rows) |-> Len(rows[r].cells) - NonEmptyCount(rows[r].cells)])

\* the two fills in the other order: columns first, then rows
detect_merged_cells_columns_first(df, first, last) ==
  LET sliced == IlocSlice(df, first, last + 1)
  IN  [sliced EXCEPT !.rows = FFillRows(FFillColumns(sliced.rows))]

\* the table detect_merged_cells returns
detect_merged_cells(df, first, last) ==
  LET sliced == IlocSlice(df, first, last + 1)
  IN  [sliced EXCEPT !.rows = FFillColumns(FFillRows(sliced.rows))]

(***************************************************************************)
(* Parse log and warnings.  A log entry f"[{level}] {message}" is kept as  *)
(* [level, msg, args]: msg is the fixed text of the message, args the      *)
(* values formatted into it, in order.                                     *)
(***************************************************************************)
LogEntry(level, msg, args) == [level |-> level, msg |-> msg, args |-> args]

Info(msg, args) == LogEntry("INFO", msg, args)

\* the entries add_warning(warning) appends: one to validation_warnings, the
\* same text to parsing_log at level WARNING
Warning(msg, args) == LogEntry("WARNING", msg, args)

IntCell(n) == Num(n, 0)

(***************************************************************************)
(* Section Cleaner.                                                        *)
(***************************************************************************)
total_keywords ==
  <<<<"t","o","t","a","l">>, <<"s","u","m">>, <<"g","r","a","n","d"," ","t","o","t","a","l">>, <<"s","u","b","t","o","t","a","l">>, <<"o","v","e","r","a","l","l">>>>

\* a mask that asks for the label to be a keyword, not to contain one
IsTotalRowExact(row) ==
  LET x == StrStrip(StrLower(PyStr(row.cells[1])))
  IN  \E k \in 1..Len(total_keywords) : total_keywords[k] = x

\* the mask of remove_total_rows for one row
IsTotalRow(row) ==
  LET x == StrStrip(StrLower(PyStr(row.cells[1])))
  IN  \E k \in 1..Len(total_keywords) : Contains(total_keywords[k], x)

\* mask.sum()
TotalRowCount(df) == Cardinality({r \in 1..Len(df.rows) : IsTotalRow(df.rows[r])})

\* a removal that hands the kept rows back last row first
remove_total_rows_reversed(df) ==
  IF Len(df.columns) > 0 /\ TotalRowCount(df) > 0
  THEN LET kept == SelectSeq(df.rows, LAMBDA row : ~IsTotalRow(row))
       IN  [df EXCEPT !.rows = [r \in 1..Len(kept) |-> kept[Len(kept) + 1 - r]]]
  ELSE df

remove_total_rows(df) ==
  IF Len(df.columns) > 0 /\ TotalRowCount(df) > 0
  THEN [df EXCEPT !.rows = SelectSeq(df.rows, LAMBDA row : ~IsTotalRow(row))]
  ELSE df

remove_total_rows_log(df) ==
  <<Info("Checking for embedded total/sum rows", <<>>)>> \o
  (IF Len(df.columns) > 0 /\ TotalRowCount(df) > 0
   THEN <<Info("Removed {removed_count} total/sum rows",
               <<IntCell(TotalRowCount(df))>>)>>
   ELSE <<>>)

\* numeric_counts of one row: the numeric-typed cells after the first column
NumericCount(row) ==
  Cardinality({c \in 2..Len(row.cells) : IsNumericTyped(row.cells[c])})

\* a mask that also takes the rows with exactly half of their cells numeric
IsCommentRowInclusive(row) == 2 * NumericCount(row) <= Len(row.cells) - 1

\* comment_mask of one row: numeric_counts < len(data_cols.columns) * 0.5
IsCommentRow(row) == 2 * NumericCount(row) < Len(row.cells) - 1

\* comment_mask.sum()
CommentRowCount(df) == Cardinality({r \in 1..Len(df.rows) : IsCommentRow(df.rows[r])})

remove_comment_rows(df) ==
  IF Len(df.columns) <= 1 THEN df
  ELSE IF CommentRowCount(df) > 0
       THEN [df EXCEPT !.rows = SelectSeq(df.rows, LAMBDA row : ~IsCommentRow(row))]
  ELSE df

remove_comment_rows_log(df) ==
  <<Info("Checking for comment rows", <<>>)>> \o
  (IF Len(df.columns) > 1 /\ CommentRowCount(df) > 0
   THEN <<Info("Removed {removed_count} potential comment rows",
               <<IntCell(CommentRowCount(df))>>)>>
   ELSE <<>>)

(***************************************************************************)
(* Column standardisation.                                                 *)
(***************************************************************************)
\* the new label of one column
StandardLabel(col, expected_branches) ==
  LET col_str      == StrStrip(PyStr(col))
      match_result == find_best_match(Text(col_str), expected_branches)
  IN  IF match_result.found THEN Text(match_result.match) ELSE Text(col_str)

\* the entries one column logs
StandardLabelLog(col, expected_branches) ==
  LET col_str      == StrStrip(PyStr(col))
      match_result == find_best_match(Text(col_str), expected_branches)
  IN  IF match_result.found
      THEN IF ScoreGE(match_result.score, ExactScore) THEN <<>>
           ELSE <<Info("Fuzzy matched '{col_str}' -> '{matched_name}' (score: {score:.2f})",
                       <<Text(col_str), Text(match_result.match)>>)>>
      ELSE <<LogEntry("WARNING", "No match found for column '{col_str}'", <<Text(col_str)>>)>>

standardize_column_names(df, expected_branches) ==
  [df EXCEPT !.columns = [c \in 1..Len(df.columns) |->
                            StandardLabel(df.columns[c], expected_branches)]]

RECURSIVE Flatten(_)
Flatten(ss) == IF ss = <<>> THEN <<>> ELSE ss[1] \o Flatten(Tail(ss))

standardize_column_names_log(df, expected_branches) ==
  <<Info("Standardizing column names with fuzzy matching", <<>>)>> \o
  Flatten([c \in 1..Len(df.columns) |-> StandardLabelLog(df.columns[c], expected_branches)])

(***************************************************************************)
(* Steps 8 to 10 of a section parse.                                       *)
(***************************************************************************)
\* the columns "Clean numeric columns" passes over: ['Period', 'Month', 'Week', 'Date']
LabelColumns == {Text(<<"P","e","r","i","o","d">>), Text(<<"M","o","n","t","h">>), Text(<<"W","e","e","k">>), Text(<<"D","a","t","e">>)}

\* the positions of the columns labelled col
ColumnsNamed(df, col) == {c \in 1..Len(df.columns) : df.columns[c] = col}

\* df_section[col] is a DataFrame, not a Series, when col labels several
\* columns; on a table with rows its .apply(self.clean_numeric_value) then
\* calls pd.isna on a whole column and "if <Series>" raises ValueError.  On a
\* table without rows DataFrame.apply calls nothing and the step passes.
CleanRaises(df) ==
  /\ df.rows # <<>>
  /\ \E c \in 1..Len(df.columns) :
        /\ df.columns[c] \notin LabelColumns
        /\ Cardinality(ColumnsNamed(df, df.columns[c])) > 1

\* for col in df_section.columns: if col not in [...]:
\*     df_section[col] = df_section[col].apply(self.clean_numeric_value)
CleanColumns(df) ==
  [df EXCEPT !.rows =
     [r \in 1..Len(df.rows) |->
        [df.rows[r] EXCEPT !.cells =
           [c \in 1..Len(df.columns) |->
              IF df.columns[c] \in LabelColumns THEN df.rows[r].cells[c]
              ELSE clean_numeric_value(df.rows[r].cells[c])]]]]

\* a cell of a cleaned column that shows clean_numeric_value raised
CleanEscapes(df) ==
  \E r \in 1..Len(df.rows) : \E c \in 1..Len(df.columns) :
     /\ df.columns[c] \notin LabelColumns
     /\ clean_numeric_value(df.rows[r].cells[c]).t = "raise"

IsAllNa(row) == \A c \in 1..Len(row.cells) : IsNa(row.cells[c])

\* df_section.dropna(how='all')
DropNaAll(df) == [df EXCEPT !.rows = SelectSeq(df.rows, LAMBDA row : ~IsAllNa(row))]

\* df_section.reset_index(drop=True)
ResetIndex(df) ==
  [df EXCEPT !.rows = [r \in 1..Len(df.rows) |-> [df.rows[r] EXCEPT !.idx = r - 1]]]

(***************************************************************************)
(* Configuration.  config['data'] is                                       *)
(*   [branches, revenue, costs, hours], each section a record              *)
(*   [header_row, start_row, end_row, sheet] of optional integers: the     *)
(* keys <section>_header_row, <section>_start_row, <section>_end_row and   *)
(* <section>_sheet, None when the key is absent.                           *)
(***************************************************************************)
NoKeys == [header_row |-> None, start_row |-> None, end_row |-> None, sheet |-> None]

Sections == <<"revenue", "costs", "hours">>

\* config.get('data', {}).get(key, default)
GetOr(opt, default) == IF opt.some THEN opt.v ELSE default

\* keyword lists in which the costs list drops the period words
SectionKeywords_costs_only(sec, branches) ==
  CASE sec = "revenue" -> <<<<"p","e","r","i","o","d">>, <<"m","o","n","t","h">>, <<"w","e","e","k">>>> \o branches
    [] sec = "costs"   -> <<<<"c","o","s","t">>, <<"e","x","p","e","n","s","e">>>> \o branches
    [] OTHER           -> <<<<"p","e","r","i","o","d">>, <<"m","o","n","t","h">>, <<"w","e","e","k">>, <<"h","o","u","r">>, <<"h","o","u","r","s">>>> \o branches

\* revenue_keywords, costs_keywords, hours_keywords
SectionKeywords(sec, expected_branches) ==
  CASE sec = "revenue" -> <<<<"p","e","r","i","o","d">>, <<"m","o","n","t","h">>, <<"w","e","e","k">>>> \o expected_branches
    [] sec = "costs"   -> <<<<"p","e","r","i","o","d">>, <<"m","o","n","t","h">>, <<"w","e","e","k">>, <<"c","o","s","t">>, <<"e","x","p","e","n","s","e">>>>
                            \o expected_branches
    [] OTHER           -> <<<<"p","e","r","i","o","d">>, <<"m","o","n","t","h">>, <<"w","e","e","k">>, <<"h","o","u","r">>, <<"h","o","u","r","s">>>>
                            \o expected_branches

EmptyTable == [columns |-> <<>>, rows |-> <<>>]

\* a section parser's result: a DataFrame, or None
Df(df) == [present |-> TRUE, df |-> df]

NoneDf == [present |-> FALSE, df |-> EmptyTable]

Raised(exc) == [t |-> "raise", exc |-> exc]

(***************************************************************************)
(* load_excel_data, statement by statement.  call is                       *)
(*   [fn |-> "load_excel_data", file |-> [readable, sheets], config]       *)
(* where file.sheets are the grids of the workbook at file_path.           *)
(***************************************************************************)
expected_branches == call.config.branches

\* the three self.log lines that open a section parser
Banner(sec) ==
  <<Info("============", <<>>),
    Info(CASE sec = "revenue" -> "PARSING REVENUE SECTION"
           [] sec = "costs"   -> "PARSING COSTS SECTION"
           [] OTHER           -> "PARSING HOURS SECTION (if present)", <<>>),
    Info("============", <<>>)>>

\* a parser whose lists are shared with the parsers of the other calls: it
\* begins with what the waiting call, or else a returned call, has put there
RobustExcelParser_shared(config) ==
  LET waiting  == {invocations.waiting[k] : k \in 1..Len(invocations.waiting)}
      returned == {r \in invocations.finished : r.ret.t = "return"}
      warnings == {f.validation_warnings : f \in waiting} \cup
                  {r.ret.warnings : r \in returned}
      logs     == {f.parsing_log : f \in waiting}
  IN  [config |-> config,
       validation_warnings |-> IF warnings = {} THEN <<>> ELSE CHOOSE w \in warnings : TRUE,
       parsing_log |-> IF logs = {} THEN <<>> ELSE CHOOSE l \in logs : TRUE]

\* RobustExcelParser.__init__: self.validation_warnings = [],
\* self.parsing_log = []
RobustExcelParser(config) ==
  [config |-> config, validation_warnings |-> <<>>, parsing_log |-> <<>>]

\* parser = RobustExcelParser(config); df_raw = pd.read_excel(file_path,
\* sheet_name=config.get('data', {}).get('revenue_sheet', 0), header=None)
Load ==
  /\ pc = "load"
  /\ LET sheet_name == GetOr(call.config.revenue.sheet, 0)
         parser     == RobustExcelParser(call.config)
         loading    == parser.parsing_log \o
                       <<Info("Loading Excel file: {file_path}", <<>>)>>
     IN  \/ /\ ~call.file.readable \/ sheet_name \notin 0..(Len(call.file.sheets) - 1)
            /\ ret' = Raised(IF call.file.readable THEN "ValueError" ELSE "IOError")
            /\ pc' = "raised"
            /\ parsing_log' = loading
            /\ UNCHANGED <<section, df_raw>>
         \/ /\ call.file.readable /\ sheet_name \in 0..(Len(call.file.sheets) - 1)
            /\ df_raw' = call.file.sheets[sheet_name + 1]
            /\ parsing_log' =
                 loading \o
                 <<Info("Loaded raw data: {rows} rows x {cols} columns",
                        <<IntCell(Len(df_raw')), IntCell(GridWidth(df_raw'))>>)>>
            /\ pc' = "find_header"
            /\ section' = "revenue"
            /\ UNCHANGED ret
  /\ validation_warnings' = RobustExcelParser(call.config).validation_warnings
  /\ UNCHANGED <<invocations, call, header_row, start_row, end_row, df_section, parsed>>

\* what find_header_row logs
find_header_row_log(keywords, found) ==
  <<Info("Searching for header with keywords: {keywords}",
         [k \in 1..Len(keywords) |-> Text(keywords[k])])>> \o
  (IF found = NotFound
   THEN <<LogEntry("WARNING", "Could not find header row automatically", <<>>)>>
   ELSE <<Info("Found header row at index {idx} with {matches} keyword matches",
               <<IntCell(found),
                 IntCell(KeywordMatches(keywords, RowValues(GridRow(df_raw, found))))>>)>>)

\* "if config_start is None or config_end is None" of parse_hours_section
HoursConfigured ==
  call.config.hours.start_row.some /\ call.config.hours.end_row.some

\* Step 1: find the header row, or fall back to the configured one
FindHeader ==
  /\ pc = "find_header"
  /\ section = "hours" => HoursConfigured
  /\ LET cfg          == call.config[section]
         keywords     == SectionKeywords(section, expected_branches)
         search_start == IF section = "hours" THEN Max2(0, cfg.start_row.v - 5) ELSE 0
         found        == find_header_row(df_raw, keywords, search_start, DefaultSearchEnd)
         fallback     == IF section = "hours" THEN GetOr(cfg.header_row, cfg.start_row.v - 1)
                         ELSE GetOr(cfg.header_row, 0)
     IN  /\ header_row' = IF found = NotFound THEN fallback ELSE found
         /\ parsing_log' =
              parsing_log \o Banner(section) \o find_header_row_log(keywords, found) \o
              (IF found = NotFound
               THEN <<Info("Using config header row: {header_row}", <<IntCell(fallback)>>)>>
               ELSE <<>>)
  /\ pc' = "boundaries"
  /\ UNCHANGED <<invocations, call, ret, section, df_raw, start_row, end_row, df_section, parsed,
                 validation_warnings>>

\* parse_hours_section without hours_start_row or hours_end_row: return None
HoursSkipped ==
  /\ pc = "find_header"
  /\ section = "hours"
  /\ ~HoursConfigured
  /\ parsing_log' = parsing_log \o Banner("hours") \o
                    <<Info("Hours section not configured, skipping", <<>>)>>
  /\ parsed' = [parsed EXCEPT !.hours = NoneDf]
  /\ pc' = "validate"
  /\ section' = "revenue"
  /\ UNCHANGED <<invocations, call, ret, df_raw, header_row, start_row, end_row, df_section,
                 validation_warnings>>

\* "if config_end - config_start >= 2" under "is not None" for both
UseConfigBoundaries(cfg) ==
  cfg.start_row.some /\ cfg.end_row.some /\ cfg.end_row.v - cfg.start_row.v >= 2

\* Step 2: detect the data boundaries and apply the configured ones; the
\* hours parser takes the configured rows as they are
DetectBoundaries ==
  /\ pc = "boundaries"
  /\ LET cfg      == call.config[section]
         detected == detect_data_boundaries(df_raw, header_row, DefaultExpectedCols)
     IN  IF section = "hours"
         THEN /\ start_row' = cfg.start_row.v
              /\ end_row' = cfg.end_row.v
              /\ UNCHANGED parsing_log
         ELSE /\ start_row' = IF UseConfigBoundaries(cfg) THEN cfg.start_row.v ELSE detected[1]
              /\ end_row' = IF UseConfigBoundaries(cfg) THEN cfg.end_row.v ELSE detected[2]
              /\ parsing_log' =
                   parsing_log \o
                   <<Info("Detecting data boundaries after header row {header_row}",
                          <<IntCell(header_row)>>),
                     Info("Detected data boundaries: rows {start_row} to {end_row}",
                          <<IntCell(detected[1]), IntCell(detected[2])>>)>> \o
                   (IF UseConfigBoundaries(cfg)
                    THEN <<Info("Using config boundaries: {config_start} to {config_end}",
                                <<IntCell(cfg.start_row.v), IntCell(cfg.end_row.v)>>)>>
                    ELSE <<>>)
  /\ pc' = "merged"
  /\ UNCHANGED <<invocations, call, ret, section, df_raw, header_row, df_section, parsed,
                 validation_warnings>>

\* a repair that fills the rows of the raw grid themselves (a slice taken
\* without .copy() and filled in place)
MergedCells_in_place ==
  /\ pc = "merged"
  /\ df_section' = detect_merged_cells(df_raw, start_row, end_row)
  /\ df_raw' = [i \in 1..Len(df_raw) |->
                  IF \E r \in 1..Len(df_section'.rows) : df_section'.rows[r].src = i - 1
                  THEN df_section'.rows[CHOOSE r \in 1..Len(df_section'.rows) :
                                          df_section'.rows[r].src = i - 1].cells
                  ELSE df_raw[i]]
  /\ parsing_log' =
       parsing_log \o
       <<Info("Checking for merged cells in rows {start_row} to {end_row}",
              <<IntCell(start_row), IntCell(end_row)>>)>>
  /\ pc' = "headers"
  /\ UNCHANGED <<invocations, call, ret, section, header_row, start_row, end_row, parsed,
                 validation_warnings>>

\* Step 3: df_section = self.detect_merged_cells(df_raw, start_row, end_row)
MergedCells ==
  /\ pc = "merged"
  /\ df_section' = detect_merged_cells(df_raw, start_row, end_row)
  /\ LET before == NaCount(IlocSlice(df_raw, start_row, end_row + 1).rows)
         after  == NaCount(df_section'.rows)
     IN  parsing_log' =
           parsing_log \o
           <<Info("Checking for merged cells in rows {start_row} to {end_row}",
                  <<IntCell(start_row), IntCell(end_row)>>)>> \o
           (IF before > after
            THEN <<Info("Filled {n} merged cells", <<IntCell(before - after)>>)>>
            ELSE <<>>)
  /\ pc' = "headers"
  /\ UNCHANGED <<invocations, call, ret, section, df_raw, header_row, start_row, end_row, parsed,
                 validation_warnings>>

\* df_raw.iloc[header_row].fillna('Unnamed')
HeaderLabels(df, header) ==
  LET row == df[(header % Len(df)) + 1]
  IN  [c \in 1..Len(row) |-> IF IsNa(row[c]) THEN Text(<<"U","n","n","a","m","e","d">>) ELSE row[c]]

\* Step 4: label the columns from the header row when it precedes the data;
\* df_raw.iloc[header_row] raises IndexError outside -len(df_raw)..len(df_raw)-1
SetHeaders ==
  /\ pc = "headers"
  /\ \/ /\ header_row < start_row
        /\ header_row \notin (-Len(df_raw))..(Len(df_raw) - 1)
        /\ ret' = Raised("IndexError")
        /\ pc' = "raised"
        /\ UNCHANGED df_section
     \/ /\ header_row < start_row
        /\ header_row \in (-Len(df_raw))..(Len(df_raw) - 1)
        /\ df_section' = [df_section EXCEPT !.columns = HeaderLabels(df_raw, header_row)]
        /\ pc' = "totals"
        /\ UNCHANGED ret
     \/ /\ header_row >= start_row
        /\ pc' = "totals"
        /\ UNCHANGED <<ret, df_section>>
  /\ UNCHANGED <<invocations, call, section, df_raw, header_row, start_row, end_row, parsed,
                 validation_warnings, parsing_log>>

\* Step 5: df_section = self.remove_total_rows(df_section)
RemoveTotalRows ==
  /\ pc = "totals"
  /\ df_section' = remove_total_rows(df_section)
  /\ parsing_log' = parsing_log \o remove_total_rows_log(df_section)
  /\ pc' = "comments"
  /\ UNCHANGED <<invocations, call, ret, section, df_raw, header_row, start_row, end_row, parsed,
                 validation_warnings>>

\* Step 6: df_section = self.remove_comment_rows(df_section)
RemoveCommentRows ==
  /\ pc = "comments"
  /\ df_section' = remove_comment_rows(df_section)
  /\ parsing_log' = parsing_log \o remove_comment_rows_log(df_section)
  /\ pc' = "standardize"
  /\ UNCHANGED <<invocations, call, ret, section, df_raw, header_row, start_row, end_row, parsed,
                 validation_warnings>>

\* Step 7: df_section = self.standardize_column_names(df_section)
StandardizeColumns ==
  /\ pc = "standardize"
  /\ df_section' = standardize_column_names(df_section, expected_branches)
  /\ parsing_log' = parsing_log \o standardize_column_names_log(df_section, expected_branches)
  /\ pc' = "clean"
  /\ UNCHANGED <<invocations, call, ret, section, df_raw, header_row, start_row, end_row, parsed,
                 validation_warnings>>

\* Step 8: clean every column that is not a label column; an exception of the
\* column assignment or of clean_numeric_value leaves the parse
CleanNumericColumns ==
  /\ pc = "clean"
  /\ \/ /\ CleanRaises(df_section) \/ CleanEscapes(df_section)
        /\ ret' = Raised("ValueError")
        /\ pc' = "raised"
        /\ UNCHANGED df_section
     \/ /\ ~(CleanRaises(df_section) \/ CleanEscapes(df_section))
        /\ df_section' = CleanColumns(df_section)
        /\ pc' = "dropna"
        /\ UNCHANGED ret
  /\ UNCHANGED <<invocations, call, section, df_raw, header_row, start_row, end_row, parsed,
                 validation_warnings, parsing_log>>

\* Step 9: df_section = df_section.dropna(how='all')
DropEmptyRows ==
  /\ pc = "dropna"
  /\ df_section' = DropNaAll(df_section)
  /\ pc' = "reset"
  /\ UNCHANGED <<invocations, call, ret, section, df_raw, header_row, start_row, end_row, parsed,
                 validation_warnings, parsing_log>>

\* Step 10 and the return: reset the index, log the shape, hand the table to
\* load_excel_data, which calls the next section parser or starts validating
ReturnSection ==
  /\ pc = "reset"
  /\ df_section' = ResetIndex(df_section)
  /\ parsing_log' = parsing_log \o
                    <<Info("{section} section parsed: {rows} rows x {cols} columns",
                           <<IntCell(Len(df_section.rows)), IntCell(Len(df_section.columns))>>)>>
  /\ parsed' = [parsed EXCEPT ![section] = Df(df_section')]
  /\ section' = CASE section = "revenue" -> "costs"
                  [] section = "costs"   -> "hours"
                  [] OTHER               -> "revenue"
  /\ pc' = IF section = "hours" THEN "validate" ELSE "find_header"
  /\ UNCHANGED <<invocations, call, ret, df_raw, header_row, start_row, end_row, validation_warnings>>

(***************************************************************************)
(* Validator and Reporter.                                                 *)
(***************************************************************************)
\* an element of validation_warnings: the warning text without a level
WarningText(msg, args) == [msg |-> msg, args |-> args]

\* df is None or df.empty
IsEmptyDf(d) == ~d.present \/ d.df.rows = <<>> \/ d.df.columns = <<>>

\* branch in df.columns
HasColumn(df, branch) == \E c \in 1..Len(df.columns) : df.columns[c] = Text(branch)

\* df[branch].isna().sum() of the column labelled branch (the configurations
\* of the model name no branch 'Period', 'Month', 'Week' or 'Date', so a
\* table with rows has at most one such column)
BranchNaCount(df, branch) ==
  LET c == CHOOSE k \in 1..Len(df.columns) : df.columns[k] = Text(branch)
  IN  Cardinality({r \in 1..Len(df.rows) : IsNa(df.rows[r].cells[c])})

\* missing_branches
MissingBranches(df, branches) == SelectSeq(branches, LAMBDA b : ~HasColumn(df, b))

\* the "data completeness" entry of one branch: kind "warning" for
\* add_warning (nan_pct > 50), "log" for self.log (nan_pct > 25), else none
CompletenessEntries(df, name, branch) ==
  IF ~HasColumn(df, branch) THEN <<>>
  ELSE LET nan_count   == BranchNaCount(df, branch)
           total_count == Len(df.rows)
           entry(kind) == [kind |-> kind,
                           msg  |-> "{section_name}: Branch '{branch}' has {nan_pct:.1f}% missing data",
                           args |-> <<Text(name), Text(branch), IntCell(nan_count),
                                      IntCell(total_count)>>]
       IN  IF total_count > 0 /\ 100 * nan_count > 50 * total_count THEN <<entry("warning")>>
           ELSE IF total_count > 0 /\ 100 * nan_count > 25 * total_count THEN <<entry("log")>>
           ELSE <<>>

\* what validate_dataframe(df, section_name) records, in order: each entry
\* [kind, msg, args] with kind "warning" (add_warning) or "log" (self.log at
\* level WARNING)
ValidationEntries(d, name, branches) ==
  IF IsEmptyDf(d)
  THEN <<[kind |-> "warning", msg |-> "{section_name}: DataFrame is empty",
          args |-> <<Text(name)>>]>>
  ELSE (IF MissingBranches(d.df, branches) # <<>>
        THEN <<[kind |-> "warning", msg |-> "{section_name}: Missing branches: {missing_branches}",
                args |-> <<Text(name)>> \o
                         [k \in 1..Len(MissingBranches(d.df, branches)) |->
                            Text(MissingBranches(d.df, branches)[k])]]>>
        ELSE <<>>) \o
       Flatten([k \in 1..Len(branches) |-> CompletenessEntries(d.df, name, branches[k])])

\* the value validate_dataframe returns
validate_dataframe(d, branches) ==
  ~IsEmptyDf(d) /\ MissingBranches(d.df, branches) = <<>>

SectionName(sec) ==
  CASE sec = "revenue" -> <<"R","e","v","e","n","u","e">>
    [] sec = "costs"   -> <<"C","o","s","t","s">>
    [] OTHER           -> <<"H","o","u","r","s">>

\* parser.validate_dataframe(revenue_df, "Revenue"), then costs, then hours
\* "if hours_df is not None"
Validate ==
  /\ pc = "validate"
  /\ LET d       == parsed[section]
         entries == ValidationEntries(d, SectionName(section), expected_branches)
         warned  == SelectSeq(entries, LAMBDA x : x.kind = "warning")
     IN  IF section = "hours" /\ ~d.present
         THEN UNCHANGED <<validation_warnings, parsing_log>>
         ELSE /\ validation_warnings' =
                   validation_warnings \o
                   [k \in 1..Len(warned) |-> WarningText(warned[k].msg, warned[k].args)]
              /\ parsing_log' =
                   parsing_log \o
                   <<Info("Validating {section_name} section", <<Text(SectionName(section))>>)>> \o
                   [k \in 1..Len(entries) |->
                      LogEntry("WARNING", entries[k].msg, entries[k].args)]
  /\ section' = CASE section = "revenue" -> "costs"
                  [] section = "costs"   -> "hours"
                  [] OTHER               -> "revenue"
  /\ pc' = IF section = "hours" THEN "report" ELSE "validate"
  /\ UNCHANGED <<invocations, call, ret, df_raw, header_row, start_row, end_row, df_section, parsed>>

\* ['Found', 'Detected', 'Removed', 'Fuzzy matched']
ReportKeywords == <<<<"F","o","u","n","d">>, <<"D","e","t","e","c","t","e","d">>, <<"R","e","m","o","v","e","d">>, <<"F","u","z","z","y"," ","m","a","t","c","h","e","d">>>>

\* the messages whose fixed text holds one of the report keywords
KeyMessages ==
  {"Found header row at index {idx} with {matches} keyword matches",
   "Detected data boundaries: rows {start_row} to {end_row}",
   "Removed {removed_count} total/sum rows",
   "Removed {removed_count} potential comment rows",
   "Fuzzy matched '{col_str}' -> '{matched_name}' (score: {score:.2f})"}

\* any(keyword in log for keyword in [...]): in the fixed text, or in a value
\* formatted into the entry
IsKeyEntry(entry) ==
  \/ entry.msg \in KeyMessages
  \/ \E a \in 1..Len(entry.args) : \E k \in 1..Len(ReportKeywords) :
        Contains(ReportKeywords[k], PyStr(entry.args[a]))

\* key_entries[-20:]
ReportTail == 20

\* a slice that takes the first n entries, key_entries[:20]
FirstN(s, n) == SubSeq(s, 1, Min2(n, Len(s)))

LastN(s, n) == SubSeq(s, Max2(1, Len(s) - n + 1), Len(s))

\* the report: the numbered warnings, then the last key log entries
generate_validation_report ==
  [warnings    |-> validation_warnings,
   key_entries |-> LastN(SelectSeq(parsing_log, IsKeyEntry), ReportTail)]

\* validation_report = parser.generate_validation_report(); return {...}
Return ==
  /\ pc = "report"
  /\ ret' = [t |-> "return",
             revenue |-> parsed.revenue, costs |-> parsed.costs, hours |-> parsed.hours,
             validation_report |-> generate_validation_report,
             warnings |-> validation_warnings]
  /\ pc' = "done"
  /\ UNCHANGED <<invocations, call, section, df_raw, header_row, start_row, end_row, df_section,
                 parsed, validation_warnings, parsing_log>>

(***************************************************************************)
(* The workbooks and configurations load_excel_data is run on: an optional *)
(* header row followed by up to MaxBodyRows rows of a data block, five     *)
(* columns wide, under each configuration of Configs; and the workbooks of *)
(* Scenarios.                                                              *)
(***************************************************************************)
MaxBodyRows == 2

Branches == <<<<"N","o","r","t","h">>, <<"S","o","u","t","h">>, <<"E","a","s","t">>>>

HeaderPool ==
  {<<Text(<<"P","e","r","i","o","d">>), Text(<<"N","o","r","t","h">>), Text(<<"S","o","u","t","h">>), Text(<<"W","e","s","t">>), NaN>>,
   <<Text(<<"P","e","r","i","o","d">>), Text(<<"N","o","r","t","h">>), Text(<<"N","o","r","t","h"," ","B","r","a","n","c","h">>), Text(<<"S","o","u","t","h">>), NaN>>,
   <<Text(<<"P","e","r","i","o","d">>), Text(<<"P","e","r","i","o","d">>), Text(<<"N","o","r","t","h">>), Text(<<"S","o","u","t","h">>), Text(<<"E","a","s","t">>)>>}

BodyPool ==
  {<<Text(<<"J","a","n">>), Num(100, 0), Text(<<"£","1",",","2","3","4",".","5","6">>), Num(7, 0), NaN>>,
   <<Text(<<"F","e","b">>), Text(<<"n","/","a">>), Text(<<"i","n","f">>), Num(2505, -1), Num(3, 0)>>,
   <<Text(<<"G","r","a","n","d"," ","T","o","t","a","l">>), Num(300, 0), Num(400, 0), Num(500, 0), Num(600, 0)>>,
   <<Text(<<"n","o","t","e",":"," ","t","b","c">>), Text(<<"n","/","a">>), NaN, NaN, NaN>>,
   <<NaN, NaN, NaN, NaN, NaN>>}

Bodies == UNION {[1..n -> BodyPool] : n \in 0..MaxBodyRows}

Grids == {h \o b : h \in {<<>>} \cup {<<x>> : x \in HeaderPool}, b \in Bodies}

Rows(start, end) == [NoKeys EXCEPT !.start_row = Some(start), !.end_row = Some(end)]

Configs ==
  {[branches |-> Branches, revenue |-> NoKeys, costs |-> NoKeys, hours |-> NoKeys],
   [branches |-> Branches, revenue |-> Rows(0, 2), costs |-> Rows(1, 2), hours |-> Rows(1, 2)],
   [branches |-> Branches, revenue |-> [NoKeys EXCEPT !.header_row = Some(1)],
    costs |-> [NoKeys EXCEPT !.header_row = Some(3)],
    hours |-> [Rows(0, 1) EXCEPT !.header_row = Some(0)]]}

File(sheets) == [readable |-> TRUE, sheets |-> sheets]

LoadCall(file, config) == [fn |-> "load_excel_data", file |-> file, config |-> config]

\* the end-to-end workbook: a header row, four rows of currency-formatted
\* values, a subtotal row and a comment row
EndToEndGrid ==
  <<<<Text(<<"P","e","r","i","o","d">>), Text(<<"B","r","a","n","c","h","A">>), Text(<<"B","r","a","n","c","h","B">>)>>,
    <<Text(<<"J","a","n">>), Text(<<"£","1",",","2","3","4",".","5","6">>), Text(<<"$","1",",","0","0","0">>)>>,
    <<Text(<<"F","e","b">>), Text(<<"£","2",",","0","0","0",".","0","0">>), Text(<<"(","5","0","0",")">>)>>,
    <<Text(<<"M","a","r">>), Text(<<"€"," ","7","5","0">>), Text(<<"$","1","2",".","5","0">>)>>,
    <<Text(<<"A","p","r">>), Text(<<"£","9","9">>), Text(<<"£","1",",","0","0","1">>)>>,
    <<Text(<<"S","u","b","t","o","t","a","l">>), Text(<<"£","4",",","0","8","3",".","5","6">>), Text(<<"$","1",",","5","1","3",".","5","0">>)>>,
    <<Text(<<"f","i","g","u","r","e","s"," ","u","n","a","u","d","i","t","e","d">>), NaN, NaN>>>>

EndToEndCall ==
  LoadCall(File(<<EndToEndGrid>>),
           [branches |-> <<<<"B","r","a","n","c","h","A">>, <<"B","r","a","n","c","h","B">>>>,
            revenue |-> NoKeys, costs |-> NoKeys, hours |-> NoKeys])

\* a block with an embedded total row and a comment row, closed by three
\* empty rows
MixedGrid ==
  <<<<Text(<<"P","e","r","i","o","d">>), Text(<<"N","o","r","t","h">>), Text(<<"S","o","u","t","h">>), Text(<<"W","e","s","t">>), NaN>>,
    <<Text(<<"J","a","n">>), Num(100, 0), Text(<<"£","1",",","2","3","4",".","5","6">>), Num(7, 0), NaN>>,
    <<Text(<<"G","r","a","n","d"," ","T","o","t","a","l">>), Num(300, 0), Num(400, 0), Num(500, 0), Num(600, 0)>>,
    <<Text(<<"F","e","b">>), Text(<<"n","/","a">>), Text(<<"i","n","f">>), Num(2505, -1), Num(3, 0)>>,
    <<Text(<<"n","o","t","e",":"," ","t","b","c">>), Text(<<"n","/","a">>), NaN, NaN, NaN>>,
    <<Text(<<"M","a","r">>), Num(90, 0), Num(-125, -1), Text(<<"(","5","0","0",")">>), Num(1, 0)>>,
    <<NaN, NaN, NaN, NaN, NaN>>,
    <<NaN, NaN, NaN, NaN, NaN>>,
    <<NaN, NaN, NaN, NaN, NaN>>>>

MixedCall ==
  LoadCall(File(<<MixedGrid>>),
           [branches |-> Branches, revenue |-> NoKeys, costs |-> NoKeys,
            hours |-> Rows(1, 5)])

\* configured ranges of two rows, one row and one row
NarrowCall ==
  LoadCall(File(<<MixedGrid>>),
           [branches |-> Branches, revenue |-> Rows(1, 2), costs |-> Rows(3, 3),
            hours |-> Rows(1, 1)])

\* a workbook of two sheets whose costs and hours keys name the second sheet
SheetsCall ==
  LoadCall(File(<<MixedGrid, EndToEndGrid>>),
           [branches |-> Branches, revenue |-> NoKeys,
            costs |-> [NoKeys EXCEPT !.sheet = Some(1)],
            hours |-> [Rows(1, 4) EXCEPT !.sheet = Some(1)]])

\* the block of MixedGrid under four labels that each match a branch at 0.9,
\* with a fifth branch configured that the workbook does not have
WideCall ==
  LoadCall(File(<<<<<<Text(<<"P","e","r","i","o","d">>), Text(<<"N","o","r","t","h"," ","B","r","a","n","c","h">>), Text(<<"S","o","u","t","h"," ","B","r","a","n","c","h">>),
                     Text(<<"E","a","s","t"," ","B","r","a","n","c","h">>), Text(<<"W","e","s","t"," ","B","r","a","n","c","h">>)>>>> \o Tail(MixedGrid)>>),
           [branches |-> <<<<"N","o","r","t","h">>, <<"S","o","u","t","h">>, <<"E","a","s","t">>, <<"W","e","s","t">>, <<"C","e","n","t","r","a","l">>>>,
            revenue |-> NoKeys, costs |-> NoKeys, hours |-> Rows(1, 5)])

\* a title row that names costs above the header row
CostsCall ==
  LoadCall(File(<<<<<<Text(<<"C","o","s","t"," ","r","e","p","o","r","t">>), Text(<<"P","e","r","i","o","d">>), NaN, NaN, NaN>>,
                    <<Text(<<"P","e","r","i","o","d">>), Text(<<"N","o","r","t","h">>), Text(<<"S","a","l","e","s">>), Text(<<"N","o","t","e","s">>), NaN>>>>
                  \o Tail(MixedGrid)>>),
           [branches |-> Branches, revenue |-> NoKeys, costs |-> NoKeys, hours |-> NoKeys])

\* a sheet of 27 rows: the revenue block at the top, rows that match the
\* hours keywords at rows 19 and 22, and an hours block at rows 24 to 26
TallGrid ==
  [i \in 1..27 |->
     CASE i = 1  -> <<Text(<<"P","e","r","i","o","d">>), Text(<<"N","o","r","t","h">>), Text(<<"S","o","u","t","h">>), Text(<<"W","e","s","t">>), NaN>>
       [] i = 2  -> <<Text(<<"J","a","n">>), Num(100, 0), Text(<<"£","1",",","2","3","4",".","5","6">>), Num(7, 0), NaN>>
       [] i = 20 -> <<Text(<<"W","e","e","k">>), Text(<<"H","o","u","r","s">>), NaN, NaN, NaN>>
       [] i = 23 -> <<Text(<<"M","o","n","t","h">>), Text(<<"H","o","u","r">>), NaN, NaN, NaN>>
       [] i = 25 -> <<Text(<<"W","e","e","k">>), Text(<<"N","o","r","t","h">>), Text(<<"S","o","u","t","h">>), Text(<<"E","a","s","t">>), NaN>>
       [] i = 26 -> <<Text(<<"W","1">>), Num(8, 0), Num(75, -1), Num(6, 0), NaN>>
       [] i = 27 -> <<Text(<<"W","2">>), Num(8, 0), Text(<<"(","2",")">>), NaN, NaN>>
       [] OTHER  -> <<NaN, NaN, NaN, NaN, NaN>>]

TallCall(hours) ==
  LoadCall(File(<<TallGrid>>),
           [branches |-> Branches, revenue |-> NoKeys, costs |-> NoKeys, hours |-> hours])

Scenarios ==
  {EndToEndCall, MixedCall, NarrowCall, SheetsCall, WideCall, CostsCall,
   TallCall(Rows(25, 26)), TallCall(Rows(23, 26)),
   TallCall([Rows(25, 26) EXCEPT !.header_row = Some(26)]),
   TallCall([Rows(25, 26) EXCEPT !.header_row = Some(3)]),
   LoadCall([readable |-> FALSE, sheets |-> <<>>],
            [branches |-> Branches, revenue |-> NoKeys, costs |-> NoKeys, hours |-> NoKeys]),
   LoadCall(File(<<<<>>, EndToEndGrid>>),
            [branches |-> <<<<"B","r","a","n","c","h","A">>, <<"B","r","a","n","c","h","B">>>>,
             revenue |-> [Rows(1, 4) EXCEPT !.sheet = Some(1)],
             costs |-> NoKeys, hours |-> NoKeys])}

LoadCalls == Scenarios \cup {LoadCall(File(<<g>>), c) : g \in Grids, c \in Configs}

Init ==
  /\ call \in LoadCalls
  /\ ret = Pending
  /\ pc = "load"
  /\ section = "none"
  /\ df_raw = <<>>
  /\ header_row = 0
  /\ start_row = 0
  /\ end_row = 0
  /\ df_section = EmptyTable
  /\ parsed = [revenue |-> NoneDf, costs |-> NoneDf, hours |-> NoneDf]
  /\ validation_warnings = <<>>
  /\ parsing_log = <<>>
  /\ invocations = NoInvocations

Next ==
  \/ Load
  \/ FindHeader
  \/ HoursSkipped
  \/ DetectBoundaries
  \/ MergedCells
  \/ SetHeaders
  \/ RemoveTotalRows
  \/ RemoveCommentRows
  \/ StandardizeColumns
  \/ CleanNumericColumns
  \/ DropEmptyRows
  \/ ReturnSection
  \/ Validate
  \/ Return

Spec == Init /\ [][Next]_vars

(***************************************************************************)
(* The functions of the parser called on their own: call is the function   *)
(* and its arguments, ret its result, and load_excel_data stays idle.      *)
(***************************************************************************)
Idle ==
  /\ pc = "idle"
  /\ section = "none"
  /\ df_raw = <<>>
  /\ header_row = 0
  /\ start_row = 0
  /\ end_row = 0
  /\ df_section = EmptyTable
  /\ parsed = [revenue |-> NoneDf, costs |-> NoneDf, hours |-> NoneDf]
  /\ validation_warnings = <<>>
  /\ parsing_log = <<>>
  /\ invocations = NoInvocations

\* all texts of at most n characters of an alphabet
Strings(alphabet, n) == UNION {[1..k -> alphabet] : k \in 0..n}

CleanMaxLen == 3

CleanAlphabet == {"1", "5", ".", ",", "£", "(", ")", "-"}

CleanValues ==
  {Text(s) : s \in Strings(CleanAlphabet, CleanMaxLen)} \cup
  {Text(<<"£","1",",","2","3","4",".","5","6">>), Text(<<"(","5","0","0",")">>), Text(<<"$","1",",","0","0","0">>), Text(<<"n","/","a">>), Text(<<"i","n","f">>),
   Text(<<"-","I","n","f","i","n","i","t","y">>), Text(<<"n","a","n">>), Text(<<"1","e","9","9","9">>), Text(<<"2",".","5","e","-","3">>), Text(<<"€"," ","2"," ","5","0","0">>),
   Text(<<" ","1","2",".","5","0"," ">>), Text(<<"(","1",",","2","5","0",".","7","5",")">>), Text(<<"1","_","0","0","0">>), Text(<<"5","(","1",")">>), Text(<<"a","b","c">>),
   NaN, Num(5, 0), Num(-25, -1), Num(123456, -2)}

InitClean ==
  /\ call \in {[fn |-> "clean_numeric_value", value |-> v] : v \in CleanValues}
  /\ ret = Pending
  /\ Idle

CleanCall ==
  /\ call.fn = "clean_numeric_value"
  /\ ret = Pending
  /\ ret' = clean_numeric_value(call.value)
  /\ UNCHANGED <<call, pvars>>

SpecClean == InitClean /\ [][CleanCall]_vars

FuzzyMaxLen == 3

TargetMaxLen == 2

FuzzyAlphabet == {"a", "A", "b", " "}

FuzzyPairs ==
  (Strings(FuzzyAlphabet, FuzzyMaxLen) \X Strings(FuzzyAlphabet, TargetMaxLen)) \cup
  {<<<<"N","o","r","t","h"," ","B","r","a","n","c","h">>, <<"N","o","r","t","h">>>>, <<<<"n","o","r","t","h">>, <<"N","o","r","t","h"," ">>>>, <<<<"W","e","s","t">>, <<"E","a","s","t">>>>,
   <<<<"x","y","z">>, <<"N","o","r","t","h">>>>, <<<<"N","r","o","t","h">>, <<"N","o","r","t","h">>>>, <<<<"S","o","u","t","h">>, <<"N","o","r","t","h">>>>,
   <<<<"S","t","h">>, <<"S","o","u","t","h">>>>, <<<<>>, <<"N","o","r","t","h">>>>}

MaxCandidates == 3

CandidatePool == {<<"N","o","r","t","h">>, <<"S","o","u","t","h">>, <<"E","a","s","t">>, <<"n","o","r","t","h">>, <<"N","o","r","t","h","e","r","n">>}

BestTexts ==
  {Text(<<"N","o","r","t","h">>), Text(<<" ","n","o","r","t","h"," ">>), Text(<<"N","o","r","t">>), Text(<<"N","o","r","t","h"," ","B","r","a","n","c","h">>), Text(<<"W","e","s","t">>),
   Text(<<"S","t","h">>), Text(<<"x","y","z">>), Text(<<"P","e","r","i","o","d">>), Text(<<>>), Text(<<" "," ">>), NaN, Num(2024, 0)}

CandidateLists == UNION {[1..n -> CandidatePool] : n \in 0..MaxCandidates}

InitFuzzy ==
  /\ \/ call \in {[fn |-> "fuzzy_match", text |-> x[1], target |-> x[2]] : x \in FuzzyPairs}
     \/ call \in {[fn |-> "find_best_match", text |-> x, candidates |-> c] :
                    x \in BestTexts, c \in CandidateLists}
  /\ ret = Pending
  /\ Idle

FuzzyCall ==
  /\ call.fn = "fuzzy_match"
  /\ ret = Pending
  /\ ret' = fuzzy_match(call.text, call.target)
  /\ UNCHANGED <<call, pvars>>

BestMatchCall ==
  /\ call.fn = "find_best_match"
  /\ ret = Pending
  /\ ret' = find_best_match(call.text, call.candidates)
  /\ UNCHANGED <<call, pvars>>

SpecFuzzy == InitFuzzy /\ [][FuzzyCall \/ BestMatchCall]_vars

MaxHeaderGridRows == 4

HeaderRowPool ==
  {<<Text(<<"P","e","r","i","o","d">>), Text(<<"N","o","r","t","h">>), Text(<<"S","o","u","t","h">>), Text(<<"T","o","t","a","l">>)>>,
   <<Text(<<"P","e","r","i","o","d">>), NaN, NaN, NaN>>,
   <<Text(<<"S","a","l","e","s"," ","r","e","p","o","r","t">>), NaN, Num(2024, 0), NaN>>,
   <<Text(<<"N","o","r","t","h","e","r","n"," ","P","e","r","i","o","d">>), Num(1, 0), Num(2, 0), Num(3, 0)>>}

HeaderGrids == UNION {[1..n -> HeaderRowPool] : n \in 0..MaxHeaderGridRows}

KeywordLists ==
  {<<<<"p","e","r","i","o","d">>, <<"n","o","r","t","h">>, <<"s","o","u","t","h">>>>, <<<<"P","e","r","i","o","d">>, <<"N","O","R","T","H">>>>, <<<<"p","e","r","i","o","d">>>>,
   <<<<"p","e","r","i","o","d">>, <<"p","e","r","i","o","d">>>>, <<<<"p","e","r","i","o","d">>, <<"P","e","r","i","o","d">>, <<"n","o","r","t","h">>>>, <<>>}

InitHeader ==
  /\ call \in {[fn |-> "find_header_row", df |-> g, keywords |-> k,
                search_start |-> s, search_end |-> e] :
                 g \in HeaderGrids, k \in KeywordLists, s \in 0..2,
                 e \in {2, 3, DefaultSearchEnd}}
  /\ ret = Pending
  /\ Idle

\* Optional[int]
HeaderCall ==
  /\ call.fn = "find_header_row"
  /\ ret = Pending
  /\ LET found == find_header_row(call.df, call.keywords, call.search_start, call.search_end)
     IN  ret' = IF found = NotFound THEN None ELSE Some(found)
  /\ UNCHANGED <<call, pvars>>

SpecHeader == InitHeader /\ [][HeaderCall]_vars

MaxBoundaryGridRows == 6

BoundaryRowPool ==
  {<<Text(<<"J","a","n">>), Num(1, 0), Num(2, 0), Num(3, 0)>>,
   <<Text(<<"n","o","t","e">>), Num(1, 0), NaN, NaN>>,
   <<NaN, NaN, NaN, NaN>>}

\* a header row, five fully populated rows, three empty rows
FiveThreeGrid ==
  <<<<Text(<<"P","e","r","i","o","d">>), Text(<<"N","o","r","t","h">>), Text(<<"S","o","u","t","h">>), Text(<<"E","a","s","t">>)>>,
    <<Text(<<"J","a","n">>), Num(1, 0), Num(2, 0), Num(3, 0)>>,
    <<Text(<<"F","e","b">>), Num(4, 0), Num(5, 0), Num(6, 0)>>,
    <<Text(<<"M","a","r">>), Num(7, 0), Num(8, 0), Num(9, 0)>>,
    <<Text(<<"A","p","r">>), Num(10, 0), Num(11, 0), Num(12, 0)>>,
    <<Text(<<"M","a","y">>), Num(13, 0), Num(14, 0), Num(15, 0)>>,
    <<NaN, NaN, NaN, NaN>>,
    <<NaN, NaN, NaN, NaN>>,
    <<NaN, NaN, NaN, NaN>>>>

BoundaryGrids ==
  {FiveThreeGrid} \cup UNION {[1..n -> BoundaryRowPool] : n \in 1..MaxBoundaryGridRows}

InitBounds ==
  /\ call \in {[fn |-> "detect_data_boundaries", df |-> g, header_row |-> h,
                expected_cols |-> e] :
                 g \in BoundaryGrids, h \in 0..1, e \in {2, DefaultExpectedCols}}
  /\ call.header_row < Len(call.df)
  /\ ret = Pending
  /\ Idle

\* Tuple[int, int]
BoundsCall ==
  /\ call.fn = "detect_data_boundaries"
  /\ ret = Pending
  /\ LET bounds == detect_data_boundaries(call.df, call.header_row, call.expected_cols)
     IN  ret' = [t |-> "return", start_row |-> bounds[1], end_row |-> bounds[2]]
  /\ UNCHANGED <<call, pvars>>

SpecBounds == InitBounds /\ [][BoundsCall]_vars

\* the cleaner on its own together with the pipeline that applies it
InitCleaner == Init \/ InitClean

NextCleaner == Next \/ CleanCall

SpecCleaner == InitCleaner /\ [][NextCleaner]_vars

(***************************************************************************)
(* Properties of load_excel_data (Spec).                                   *)
(***************************************************************************)
\* the raw-grid row numbers of a table's rows, in table order
SourceRows(df) == [r \in 1..Len(df.rows) |-> df.rows[r].src]

StrictlyIncreasing(s) == \A i \in 1..Len(s) : \A j \in 1..Len(s) : i < j => s[i] < s[j]

\* the cells of a table outside its label columns
DataCells(df) ==
  {df.rows[r].cells[c] : r \in 1..Len(df.rows),
                         c \in {k \in 1..Len(df.columns) : df.columns[k] \notin LabelColumns}}

\* C1: the section parsed from the end-to-end workbook (a header row, four
\* rows of currency-formatted values, a subtotal row, a comment row) has four
\* rows, the columns Period, BranchA and BranchB, and a number in every
\* branch cell.
C1_EndToEnd ==
  (call = EndToEndCall /\ parsed.revenue.present) =>
     LET df == parsed.revenue.df
     IN  /\ df.columns = <<Text(<<"P","e","r","i","o","d">>), Text(<<"B","r","a","n","c","h","A">>), Text(<<"B","r","a","n","c","h","B">>)>>
         /\ Len(df.rows) = 4
         /\ SourceRows(df) = <<1, 2, 3, 4>>
         /\ \A v \in DataCells(df) : v.t = "num"

\* C2: every cell of a returned section outside the label column is a finite
\* number or missing.
C2_FiniteOrMissing ==
  \A s \in {"revenue", "costs", "hours"} :
     parsed[s].present => \A v \in DataCells(parsed[s].df) : v.t \in {"num", "nan"}

\* C3: the column labels of a returned section are pairwise distinct.
C3_UniqueLabels ==
  \A s \in {"revenue", "costs", "hours"} :
     parsed[s].present =>
        LET columns == parsed[s].df.columns
        IN  \A i \in 1..Len(columns) : \A j \in 1..Len(columns) :
               i # j => columns[i] # columns[j]

\* the steps of a section parser at which df_section is the table of the
\* section being parsed
SectionStages == {"headers", "totals", "comments", "standardize", "clean", "dropna", "reset"}

\* C4: at every step of a section parser the rows of the table are rows of
\* the raw-grid slice start_row..end_row in their original order, none twice;
\* the returned table keeps that order and is indexed 0, 1, 2, ...
C4_RowOrder ==
  /\ pc \in SectionStages =>
        /\ StrictlyIncreasing(SourceRows(df_section))
        /\ \A r \in 1..Len(df_section.rows) :
              /\ df_section.rows[r].src \in start_row..end_row
              /\ df_section.rows[r].src \in 0..(Len(df_raw) - 1)
  /\ \A s \in {"revenue", "costs", "hours"} :
        parsed[s].present =>
           /\ StrictlyIncreasing(SourceRows(parsed[s].df))
           /\ \A r \in 1..Len(parsed[s].df.rows) :
                 /\ parsed[s].df.rows[r].idx = r - 1
                 /\ parsed[s].df.rows[r].src \in 0..(Len(df_raw) - 1)

\* a returned table of three rows around which a total row and a comment row
\* were removed
C4_Witness ==
  /\ parsed.revenue.present
  /\ SourceRows(parsed.revenue.df) = <<1, 3, 5>>

\* C6: clean_numeric_value returns a number or the missing marker for every
\* scalar it is given and never raises; the cleaning step of a section parser
\* keeps every row and every column, leaves only numbers and missing markers
\* in the cleaned columns, and raises only for a duplicated column label,
\* never because of a cell.
C6_NeverRaises ==
  /\ [](call.fn = "clean_numeric_value" /\ ret # Pending => ret.t \in {"num", "nan", "inf"})
  /\ [][pc = "clean" =>
          \/ /\ pc' = "dropna"
             /\ df_section'.columns = df_section.columns
             /\ SourceRows(df_section') = SourceRows(df_section)
             /\ \A v \in DataCells(df_section') : v.t \in {"num", "nan", "inf"}
          \/ /\ pc' = "raised"
             /\ CleanRaises(df_section)]_vars

\* a cleaned table in which a text cell that is no number became missing and
\* its row is still there
C6_Witness ==
  /\ pc = "dropna"
  /\ \E r \in 1..Len(df_section.rows) : \E c \in 1..Len(df_section.columns) :
        LET raw == GridRow(df_raw, df_section.rows[r].src)[c]
        IN  /\ df_section.columns[c] \notin LabelColumns
            /\ raw.t = "str"
            /\ PyFloat(RemoveChars(StrStrip(raw.s), {"£", "$", "€", ",", " "})).t = "raise"
            /\ df_section.rows[r].cells[c] = NaN

(***************************************************************************)
(* Properties of clean_numeric_value (SpecClean).                          *)
(***************************************************************************)
\* s with the character ch put in after its first i characters
Insert(s, i, ch) == SubSeq(s, 1, i) \o <<ch>> \o SubSeq(s, i + 1, Len(s))

\* C5: clean_numeric_value maps "£1,234.56" to 1234.56, "(500)" to -500 and
\* "$1,000" to 1000, maps "n/a", the empty string and an absent value to
\* missing, and gives a text the same result wherever a currency symbol, a
\* thousands separator or a whitespace character is put into it.
C5_Cleaner ==
  (call.fn = "clean_numeric_value" /\ ret # Pending) =>
     /\ call.value = Text(<<"£","1",",","2","3","4",".","5","6">>) => ret = Num(123456, -2)
     /\ call.value = Text(<<"(","5","0","0",")">>) => ret = Num(-500, 0)
     /\ call.value = Text(<<"$","1",",","0","0","0">>) => ret = Num(1000, 0)
     /\ call.value \in {Text(<<"n","/","a">>), Text(<<>>), NaN} => ret = NaN
     /\ call.value.t = "str" =>
           \A i \in 0..Len(call.value.s) : \A ch \in {"£", "$", "€", ",", " ", "\t"} :
              clean_numeric_value(Text(Insert(call.value.s, i, ch))) = ret

\* the cleaner has returned 1234.56 for "£1,234.56"
C5_Witness ==
  /\ call.fn = "clean_numeric_value"
  /\ call.value = Text(<<"£","1",",","2","3","4",".","5","6">>)
  /\ ret = Num(123456, -2)

(***************************************************************************)
(* Properties of fuzzy_match and find_best_match (SpecFuzzy).              *)
(***************************************************************************)
Normalized(s) == StrStrip(StrLower(s))

Chars(s) == {s[i] : i \in 1..Len(s)}

\* C7: fuzzy_match returns 1.0 exactly when the strings are equal after
\* lower-casing and trimming; otherwise 0.9 when one normalized string
\* contains the other; otherwise a ratio in [0,1) that is 0 exactly when the
\* strings share no character, and then find_best_match reports no match.
C7_FuzzyScore ==
  (call.fn = "fuzzy_match" /\ ret # Pending) =>
     LET a == Normalized(call.text)
         b == Normalized(call.target)
     IN  /\ ScoreEQ(ret, Score(1, 1)) <=> a = b
         /\ (a # b /\ (Contains(a, b) \/ Contains(b, a))) => ScoreEQ(ret, Score(9, 10))
         /\ (a # b /\ ~Contains(a, b) /\ ~Contains(b, a)) =>
               /\ ret.d > 0 /\ ret.n >= 0 /\ ret.n < ret.d
               /\ (ret.n = 0) <=> (Chars(a) \cap Chars(b) = {})
               /\ Chars(a) \cap Chars(b) = {} =>
                     /\ ~ScoreGE(ret, Score(3, 4))
                     /\ find_best_match(Text(call.text), <<call.target>>) = NoMatch

\* "North Branch" against "North" has scored 0.9
C7_Witness ==
  /\ call.fn = "fuzzy_match"
  /\ call.text = <<"N","o","r","t","h"," ","B","r","a","n","c","h">>
  /\ call.target = <<"N","o","r","t","h">>
  /\ ret = Score(9, 10)

\* C8: find_best_match returns a candidate of the highest score, the
\* earliest of them in the list; it returns no match exactly when no
\* candidate scores 0.75 or more, or the text or the candidate list is empty.
C8_BestMatch ==
  (call.fn = "find_best_match" /\ ret # Pending) =>
     LET candidates == call.candidates
         text_str   == StrStrip(PyStr(call.text))
         empty      == candidates = <<>> \/ IsNa(call.text) \/ text_str = <<>>
     IN  /\ ret = NoMatch <=>
               \/ empty
               \/ \A i \in 1..Len(candidates) :
                     ~ScoreGE(fuzzy_match(text_str, candidates[i]), Score(3, 4))
         /\ ret # NoMatch =>
               /\ ret.found
               /\ \E i \in 1..Len(candidates) :
                     /\ ret.match = candidates[i]
                     /\ ret.score = fuzzy_match(text_str, candidates[i])
                     /\ \A j \in 1..Len(candidates) :
                           ScoreGE(ret.score, fuzzy_match(text_str, candidates[j]))
                     /\ \A j \in 1..(i - 1) :
                           ScoreGT(ret.score, fuzzy_match(text_str, candidates[j]))

\* "West" matched "East" at exactly 0.75, with "East" the last candidate
C8_Witness ==
  /\ call.fn = "find_best_match"
  /\ call.text = Text(<<"W","e","s","t">>)
  /\ call.candidates = <<<<"N","o","r","t","h">>, <<"S","o","u","t","h">>, <<"E","a","s","t">>>>
  /\ ret = [found |-> TRUE, match |-> <<"E","a","s","t">>, score |-> Score(6, 8)]

(***************************************************************************)
(* Properties of find_header_row (SpecHeader) and detect_data_boundaries   *)
(* (SpecBounds).                                                           *)
(***************************************************************************)
\* the distinct keywords, compared in lower case, that a cell of the row contains
MatchedKeywords(keywords, row) ==
  {StrLower(keywords[k]) : k \in {n \in 1..Len(keywords) :
      \E c \in 1..Len(row) : Contains(StrLower(keywords[n]), StrStrip(StrLower(PyStr(row[c]))))}}

\* the first row of the window that matches at least "needed" distinct keywords
FirstQualifying(df, keywords, first, stop, needed) ==
  LET qualifying == {idx \in first..(stop - 1) :
                        Cardinality(MatchedKeywords(keywords, df[idx + 1])) >= needed}
  IN  IF qualifying = {} THEN None
      ELSE Some(CHOOSE idx \in qualifying : \A other \in qualifying : idx <= other)

\* C9: find_header_row returns the first row of the search window that
\* matches at least min(2, keyword_count) distinct keywords, a keyword that
\* is twice in the list counted once, and not-found when there is none
\* (keyword_count read as the length of the list or as the number of its
\* distinct keywords).
C9_HeaderRow ==
  (call.fn = "find_header_row" /\ ret # Pending) =>
     LET stop     == Min2(call.search_end, Len(call.df))
         distinct == Cardinality({StrLower(call.keywords[k]) : k \in 1..Len(call.keywords)})
     IN  \/ ret = FirstQualifying(call.df, call.keywords, call.search_start, stop,
                                  Min2(2, Len(call.keywords)))
         \/ ret = FirstQualifying(call.df, call.keywords, call.search_start, stop,
                                  Min2(2, distinct))

\* the rows k at which the block ends: sparse, and so are the rows among the
\* next two that are counted (rows past the grid count as sparse or are
\* required to exist, according to "strict")
ConfirmedEnds(df, first, expected_cols, strict) ==
  {k \in first..(Len(df) - 1) :
     /\ NonEmptyCount(df[k + 1]) < expected_cols
     /\ strict => k + 2 <= Len(df) - 1
     /\ \A i \in (k + 1)..Min2(k + 2, Len(df) - 1) : NonEmptyCount(df[i + 1]) < expected_cols}

ExpectedEnd(df, first, expected_cols, strict) ==
  LET ends == ConfirmedEnds(df, first, expected_cols, strict)
  IN  IF ends = {} THEN Len(df) - 1
      ELSE (CHOOSE k \in ends : \A other \in ends : k <= other) - 1

\* C10: detect_data_boundaries returns start = header_row + 1 and
\* end = k - 1 for the first sparse row k whose following two rows are sparse
\* too, and the last row of the grid when there is no such k; a sparse row
\* followed within two rows by a full row never ends the block.
C10_Boundaries ==
  (call.fn = "detect_data_boundaries" /\ ret # Pending) =>
     /\ ret.start_row = call.header_row + 1
     /\ \/ ret.end_row = ExpectedEnd(call.df, call.header_row + 1, call.expected_cols, FALSE)
        \/ ret.end_row = ExpectedEnd(call.df, call.header_row + 1, call.expected_cols, TRUE)

\* C11: when the rows from start to e all have the minimum number of
\* non-empty cells and the three rows after e are sparse, the block ends at
\* e, the last populated row; for a header, five populated rows and three
\* empty rows that is row 4 of the data block.
C11_EndOfBlock ==
  (call.fn = "detect_data_boundaries" /\ ret # Pending) =>
     /\ \A e \in call.header_row..(Len(call.df) - 4) :
           (/\ \A i \in (call.header_row + 1)..e :
                  NonEmptyCount(call.df[i + 1]) >= call.expected_cols
            /\ \A i \in (e + 1)..(e + 3) :
                  NonEmptyCount(call.df[i + 1]) < call.expected_cols)
           => ret.end_row = e
     /\ (call.df = FiveThreeGrid /\ call.header_row = 0 /\
         call.expected_cols = DefaultExpectedCols)
           => ret.end_row - ret.start_row = 4

\* the boundaries of the five-row block have been returned
C11_Witness ==
  /\ call.fn = "detect_data_boundaries"
  /\ call.df = FiveThreeGrid
  /\ call.header_row = 0
  /\ call.expected_cols = DefaultExpectedCols
  /\ ret # Pending
  /\ ret.start_row = 1
  /\ ret.end_row = 5

\* the steps of a section parser at which start_row and end_row are the
\* boundaries of the section being parsed
BoundedStages == {"merged"} \cup SectionStages

\* C12: the configured start and end rows are the boundaries of a section
\* exactly when both are supplied and their range spans at least 2 rows, and
\* the detected boundaries are used otherwise (the rows a..b read as spanning
\* b - a + 1 rows or, as the code's test reads, b - a).
C12_ConfigOverride ==
  pc \in BoundedStages =>
     LET cfg        == call.config[section]
         supplied   == cfg.start_row.some /\ cfg.end_row.some
         configured == <<cfg.start_row.v, cfg.end_row.v>>
         detected   == detect_data_boundaries(df_raw, header_row, DefaultExpectedCols)
     IN  \E least \in {1, 2} :
            IF supplied /\ cfg.end_row.v - cfg.start_row.v >= least
            THEN <<start_row, end_row>> = configured
            ELSE <<start_row, end_row>> = detected

(***************************************************************************)
(* detect_merged_cells on its own (SpecMerged).                            *)
(***************************************************************************)
MaxMergedGridRows == 3

MergedRowPool ==
  {<<Text(<<"a">>), NaN, NaN>>,
   <<NaN, NaN, NaN>>,
   <<NaN, Text(<<"b">>), NaN>>,
   <<NaN, NaN, Num(1, 0)>>,
   <<Text(<<"a">>), Text(<<"b">>), Num(1, 0)>>,
   <<NaN, Num(2, 0), Text(<<"c">>)>>}

MergedGrids == UNION {[1..n -> MergedRowPool] : n \in 0..MaxMergedGridRows}

InitMerged ==
  /\ call \in {[fn |-> "detect_merged_cells", df |-> g, start_row |-> s, end_row |-> e] :
                 g \in MergedGrids, s \in 0..2, e \in -1..3}
  /\ ret = Pending
  /\ Idle

MergedCall ==
  /\ call.fn = "detect_merged_cells"
  /\ ret = Pending
  /\ ret' = detect_merged_cells(call.df, call.start_row, call.end_row)
  /\ UNCHANGED <<call, pvars>>

SpecMerged == InitMerged /\ [][MergedCall]_vars

\* the cells of a table, row by row
CellsOf(df) == [r \in 1..Len(df.rows) |-> df.rows[r].cells]

\* C13: applying detect_merged_cells to the full range of its own output
\* gives that output again.
C13_Idempotent ==
  (call.fn = "detect_merged_cells" /\ ret # Pending) =>
     CellsOf(detect_merged_cells(CellsOf(ret), 0, Len(ret.rows) - 1)) = CellsOf(ret)

\* a repaired range of three rows in which cells were filled
C13_Witness ==
  /\ call.fn = "detect_merged_cells"
  /\ ret # Pending
  /\ Len(ret.rows) = 3
  /\ \E r \in 1..3 : \E c \in 1..3 :
        IsNa(call.df[ret.rows[r].src + 1][c]) /\ ~IsNa(ret.rows[r].cells[c])

\* the rows of the grid that the range start_row..end_row takes
SliceRows(df, first, last) ==
  {i \in 0..(Len(df) - 1) : first <= i /\ i <= last}

\* the value the repair is to leave in column c of the k-th row of the
\* slice, given the repaired rows above it
Repaired(df, out, first, k, c) ==
  LET row   == df[first + k]
      left  == {j \in 1..c : ~IsNa(row[j])}
      above == {j \in 1..(k - 1) : ~IsNa(out[j][c])}
  IN  IF left # {} THEN row[CHOOSE j \in left : \A other \in left : j >= other]
      ELSE IF above # {} THEN out[CHOOSE j \in above : \A other \in above : j >= other][c]
      ELSE NaN

\* C14: the output of detect_merged_cells has the rows and columns of the
\* slice; a cell that was not empty keeps its value; an empty cell takes the
\* nearest non-empty value to its left in its row, failing that the nearest
\* filled value above it within the range, failing that it stays empty.
C14_OnlyFills ==
  (call.fn = "detect_merged_cells" /\ ret # Pending) =>
     LET rows == SliceRows(call.df, call.start_row, call.end_row)
     IN  /\ {ret.rows[k].src : k \in 1..Len(ret.rows)} = rows
         /\ StrictlyIncreasing(SourceRows(ret))
         /\ Len(ret.columns) = GridWidth(call.df)
         /\ \A k \in 1..Len(ret.rows) :
               /\ Len(ret.rows[k].cells) = GridWidth(call.df)
               /\ \A c \in 1..GridWidth(call.df) :
                     LET old == call.df[ret.rows[k].src + 1][c]
                     IN  /\ ~IsNa(old) => ret.rows[k].cells[c] = old
                         /\ ret.rows[k].cells[c] =
                               Repaired(call.df, CellsOf(ret), ret.rows[1].src, k, c)

\* a repaired range in which one cell was filled from the left and another
\* from above
C14_Witness ==
  /\ call.fn = "detect_merged_cells"
  /\ ret # Pending
  /\ \E k \in 1..Len(ret.rows) : \E c \in 2..3 :
        /\ IsNa(call.df[ret.rows[k].src + 1][c])
        /\ ~IsNa(call.df[ret.rows[k].src + 1][c - 1])
        /\ ret.rows[k].cells[c] = call.df[ret.rows[k].src + 1][c - 1]
  /\ \E k \in 2..Len(ret.rows) :
        /\ \A c \in 1..3 : IsNa(call.df[ret.rows[k].src + 1][c])
        /\ ~IsNa(ret.rows[k].cells[1])
        /\ ret.rows[k].cells[1] = ret.rows[k - 1].cells[1]

(***************************************************************************)
(* remove_total_rows on its own (SpecTotals).                              *)
(***************************************************************************)
\* the table pandas makes of a grid: default labels, rows indexed from 0
TableOf(grid) == IlocSlice(grid, 0, Len(grid))

MaxTotalTableRows == 3

TotalRowPool ==
  {<<Text(<<"G","r","a","n","d"," ","T","o","t","a","l">>), Num(300, 0)>>,
   <<Text(<<"G","r","a","n","d"," ","T","o","t","a","l">>), Text(<<"n","/","a">>)>>,
   <<Text(<<" ","S","U","B","T","O","T","A","L"," ">>), NaN>>,
   <<Text(<<"T","o","t","a","l","s"," ","f","o","r"," ","y","e","a","r">>), Num(5, 0)>>,
   <<Text(<<"S","u","m","m","a","r","y">>), Num(7, 0)>>,
   <<Text(<<"O","v","e","r","a","l","l">>), Text(<<"t","o","t","a","l">>)>>,
   <<Text(<<"J","a","n">>), Num(100, 0)>>,
   <<Text(<<"F","e","b">>), Text(<<"t","o","t","a","l">>)>>,
   <<NaN, Num(1, 0)>>,
   <<Num(2024, 0), Num(2, 0)>>}

TotalTables ==
  {EmptyTable} \cup
  {TableOf(g) : g \in UNION {[1..n -> TotalRowPool] : n \in 1..MaxTotalTableRows}}

InitTotals ==
  /\ call \in {[fn |-> "remove_total_rows", df |-> d] : d \in TotalTables}
  /\ ret = Pending
  /\ Idle

TotalsCall ==
  /\ call.fn = "remove_total_rows"
  /\ ret = Pending
  /\ ret' = remove_total_rows(call.df)
  /\ UNCHANGED <<call, pvars>>

SpecTotals == InitTotals /\ [][TotalsCall]_vars

\* the first-column text of a row as remove_total_rows reads it contains one
\* of the five keywords
HasTotalLabel(row) ==
  \E kw \in {<<"t","o","t","a","l">>, <<"s","u","m">>, <<"g","r","a","n","d"," ","t","o","t","a","l">>, <<"s","u","b","t","o","t","a","l">>, <<"o","v","e","r","a","l","l">>} :
     Contains(kw, StrStrip(StrLower(PyStr(row.cells[1]))))

\* C15: remove_total_rows drops exactly the rows whose first-column text,
\* lower-cased and trimmed, contains "total", "sum", "grand total",
\* "subtotal" or "overall", and keeps the other rows as they are and in
\* order; a row labelled "Grand Total" is dropped whatever its other cells.
C15_TotalRows ==
  (call.fn = "remove_total_rows" /\ ret # Pending) =>
     /\ ret.columns = call.df.columns
     /\ StrictlyIncreasing(SourceRows(ret))
     /\ \A k \in 1..Len(ret.rows) : \E r \in 1..Len(call.df.rows) : ret.rows[k] = call.df.rows[r]
     /\ \A r \in 1..Len(call.df.rows) :
           LET row == call.df.rows[r]
           IN  /\ HasTotalLabel(row) <=> ~(\E k \in 1..Len(ret.rows) : ret.rows[k] = row)
               /\ row.cells[1] = Text(<<"G","r","a","n","d"," ","T","o","t","a","l">>) =>
                     ~(\E k \in 1..Len(ret.rows) : ret.rows[k].src = row.src)

\* "Grand Total" rows with a number and with text beside them were dropped
\* and a row that has "total" in another cell only was kept
C15_Witness ==
  /\ call.fn = "remove_total_rows"
  /\ ret # Pending
  /\ CellsOf(call.df) = <<<<Text(<<"G","r","a","n","d"," ","T","o","t","a","l">>), Num(300, 0)>>,
                          <<Text(<<"F","e","b">>), Text(<<"t","o","t","a","l">>)>>,
                          <<Text(<<"G","r","a","n","d"," ","T","o","t","a","l">>), Text(<<"n","/","a">>)>>>>
  /\ CellsOf(ret) = <<<<Text(<<"F","e","b">>), Text(<<"t","o","t","a","l">>)>>>>

(***************************************************************************)
(* remove_comment_rows on its own (SpecComments).                          *)
(***************************************************************************)
MaxCommentTableRows == 2

CommentCells == {Num(500, 0), Text(<<"£","5","0","0">>), NaN}

\* the rows of w cells: a label and w - 1 cells
CommentRows(w) == {<<Text(<<"J","a","n">>)>> \o d : d \in [1..(w - 1) -> CommentCells]}

CommentTables ==
  {EmptyTable} \cup
  {TableOf(g) : g \in UNION {[1..n -> CommentRows(w)] :
                               n \in 1..MaxCommentTableRows, w \in {1, 3, 4}}}

InitComments ==
  /\ call \in {[fn |-> "remove_comment_rows", df |-> d] : d \in CommentTables}
  /\ ret = Pending
  /\ Idle

CommentsCall ==
  /\ call.fn = "remove_comment_rows"
  /\ ret = Pending
  /\ ret' = remove_comment_rows(call.df)
  /\ UNCHANGED <<call, pvars>>

SpecComments == InitComments /\ [][CommentsCall]_vars

\* the cells after the first column whose type is a number type (a float
\* NaN is one, text never is)
NumericTyped(row) == {c \in 2..Len(row.cells) : row.cells[c].t \in {"num", "nan", "inf"}}

\* C16: remove_comment_rows drops exactly the rows in which strictly fewer
\* than half of the cells after the first column are numeric-typed, keeps
\* the others as they are and in order (a row with exactly half is kept),
\* and returns a table of a single column unchanged; text such as "£500"
\* does not count as numeric.
C16_CommentRows ==
  (call.fn = "remove_comment_rows" /\ ret # Pending) =>
     /\ ret.columns = call.df.columns
     /\ StrictlyIncreasing(SourceRows(ret))
     /\ \A k \in 1..Len(ret.rows) : \E r \in 1..Len(call.df.rows) : ret.rows[k] = call.df.rows[r]
     /\ Len(call.df.columns) <= 1 => ret = call.df
     /\ Len(call.df.columns) > 1 =>
           \A r \in 1..Len(call.df.rows) :
              LET row == call.df.rows[r]
              IN  (2 * Cardinality(NumericTyped(row)) < Len(row.cells) - 1)
                     <=> ~(\E k \in 1..Len(ret.rows) : ret.rows[k] = row)

\* a row with one number among two cells was kept and a row of two "£500"
\* texts was dropped
C16_Witness ==
  /\ call.fn = "remove_comment_rows"
  /\ ret # Pending
  /\ CellsOf(call.df) = <<<<Text(<<"J","a","n">>), Num(500, 0), Text(<<"£","5","0","0">>)>>,
                          <<Text(<<"J","a","n">>), Text(<<"£","5","0","0">>), Text(<<"£","5","0","0">>)>>>>
  /\ CellsOf(ret) = <<<<Text(<<"J","a","n">>), Num(500, 0), Text(<<"£","5","0","0">>)>>>>

(***************************************************************************)
(* Properties of the hours section and of validation (Spec).               *)
(***************************************************************************)
\* hours_start_row and hours_end_row are both in the configuration
HoursRowsSupplied == call.config.hours.start_row.some /\ call.config.hours.end_row.some

\* C17: once the three section parsers have returned, the hours section is
\* "not present" exactly when hours_start_row or hours_end_row is absent,
\* and then nothing is validated or warned about for hours; the revenue and
\* costs parsers always return a table.
C17_HoursOptional ==
  /\ pc \in {"validate", "report", "done"} =>
        /\ parsed.hours.present <=> HoursRowsSupplied
        /\ parsed.revenue.present
        /\ parsed.costs.present
  /\ (pc \in {"report", "done"} /\ ~HoursRowsSupplied) =>
        /\ \A k \in 1..Len(validation_warnings) :
              validation_warnings[k].args[1] # Text(<<"H","o","u","r","s">>)
        /\ \A k \in 1..Len(parsing_log) :
              parsing_log[k].args # <<>> => parsing_log[k].args[1] # Text(<<"H","o","u","r","s">>)
  /\ ~(pc = "raised" /\ section \in {"revenue", "costs"})

\* a warning of the named section that names the branch
NamesBranch(warning, name, branch) ==
  /\ warning.args[1] = Text(name)
  /\ \E j \in 2..Len(warning.args) : warning.args[j] = Text(branch)

\* C18: after validation, for every parsed section and every configured
\* branch that is not a column of it there is a warning of that section
\* naming the branch, also when the section has no rows.
C18_MissingBranchWarned ==
  pc \in {"report", "done"} =>
     \A s \in {"revenue", "costs", "hours"} :
        parsed[s].present =>
           \A b \in 1..Len(call.config.branches) :
              (\A c \in 1..Len(parsed[s].df.columns) :
                  parsed[s].df.columns[c] # Text(call.config.branches[b]))
              => \E k \in 1..Len(validation_warnings) :
                    NamesBranch(validation_warnings[k], SectionName(s), call.config.branches[b])

(***************************************************************************)
(* validate_dataframe on its own (SpecValidate).                           *)
(***************************************************************************)
MaxValidateRows == 4

ValidateBranches == <<<<"N","o","r","t","h">>, <<"S","o","u","t","h">>>>

ValidateCells == {Num(10, 0), NaN}

\* parsed tables of w columns (Period, North and for w = 3 South) with n rows
ValidateTables(w, n) ==
  {[columns |-> SubSeq(<<Text(<<"P","e","r","i","o","d">>), Text(<<"N","o","r","t","h">>), Text(<<"S","o","u","t","h">>)>>, 1, w),
    rows    |-> [r \in 1..n |-> [idx |-> r - 1, src |-> r, cells |-> <<Text(<<"J","a","n">>)>> \o g[r]]]] :
     g \in [1..n -> [1..(w - 1) -> ValidateCells]]}

ValidateInputs ==
  {NoneDf} \cup
  {Df(d) : d \in UNION {ValidateTables(w, n) : w \in 2..3, n \in 0..MaxValidateRows}}

InitValidate ==
  /\ call \in {[fn |-> "validate_dataframe", df |-> d, section_name |-> <<"R","e","v","e","n","u","e">>,
                branches |-> ValidateBranches] : d \in ValidateInputs}
  /\ ret = Pending
  /\ Idle

ValidateCall ==
  /\ call.fn = "validate_dataframe"
  /\ ret = Pending
  /\ LET entries == ValidationEntries(call.df, call.section_name, call.branches)
         warned  == SelectSeq(entries, LAMBDA x : x.kind = "warning")
     IN  /\ validation_warnings' =
              validation_warnings \o
              [k \in 1..Len(warned) |-> WarningText(warned[k].msg, warned[k].args)]
         /\ parsing_log' =
              parsing_log \o
              <<Info("Validating {section_name} section", <<Text(call.section_name)>>)>> \o
              [k \in 1..Len(entries) |-> LogEntry("WARNING", entries[k].msg, entries[k].args)]
  /\ ret' = [t |-> "return", value |-> validate_dataframe(call.df, call.branches)]
  /\ UNCHANGED <<invocations, call, pc, section, df_raw, header_row, start_row, end_row, df_section, parsed>>

SpecValidate == InitValidate /\ [][ValidateCall]_vars

\* the missing cells of the column labelled branch, and whether there is one
MissingIn(df, branch) ==
  Cardinality({r \in 1..Len(df.rows) :
                 \E c \in 1..Len(df.columns) :
                    df.columns[c] = Text(branch) /\ df.rows[r].cells[c].t = "nan"})

IsColumn(df, branch) == \E c \in 1..Len(df.columns) : df.columns[c] = Text(branch)

\* entries of a sequence of warnings or log entries about the missing data
\* of a branch
AboutMissingData(entries, branch) ==
  {k \in 1..Len(entries) :
     /\ entries[k].msg = "{section_name}: Branch '{branch}' has {nan_pct:.1f}% missing data"
     /\ entries[k].args[2] = Text(branch)}

\* C19: validate_dataframe returns False and adds a warning if the table is
\* empty, if a configured branch is not a column, or if a branch column has
\* more than 50% missing values; a branch column with more than 25% and at
\* most 50% missing gets a log entry and no warning, one with at most 25%
\* neither.
C19_Validation ==
  (call.fn = "validate_dataframe" /\ ret # Pending) =>
     LET df       == call.df.df
         empty    == ~call.df.present \/ df.rows = <<>> \/ df.columns = <<>>
         branches == {call.branches[k] : k \in 1..Len(call.branches)}
         present  == {b \in branches : IsColumn(df, b)}
         over(b, pct) == 100 * MissingIn(df, b) > pct * Len(df.rows)
     IN  /\ (empty \/ present # branches \/ \E b \in present : over(b, 50)) =>
               (ret.value = FALSE /\ validation_warnings # <<>>)
         /\ ~empty =>
               \A b \in present :
                  /\ over(b, 50) => AboutMissingData(validation_warnings, b) # {}
                  /\ (over(b, 25) /\ ~over(b, 50)) =>
                        /\ AboutMissingData(parsing_log, b) # {}
                        /\ AboutMissingData(validation_warnings, b) = {}
                  /\ ~over(b, 25) =>
                        /\ AboutMissingData(parsing_log, b) = {}
                        /\ AboutMissingData(validation_warnings, b) = {}

(***************************************************************************)
(* Error propagation of load_excel_data (Spec).                            *)
(***************************************************************************)
\* the workbook can be opened and has the sheet the configuration names
SheetReadable ==
  /\ call.file.readable
  /\ GetOr(call.config.revenue.sheet, 0) \in 0..(Len(call.file.sheets) - 1)

\* C20: load_excel_data raises only when the file cannot be opened or read
\* as a spreadsheet, and then no section is parsed and no bundle returned;
\* when it returns, the bundle has the keys revenue, costs, hours,
\* validation_report and warnings.
C20_OnlyIOErrors ==
  /\ pc = "raised" => ~SheetReadable
  /\ ~SheetReadable =>
        /\ pc \in {"load", "raised"}
        /\ ret.t # "return"
        /\ \A s \in {"revenue", "costs", "hours"} : ~parsed[s].present
  /\ pc = "done" =>
        /\ ret.t = "return"
        /\ {"revenue", "costs", "hours", "validation_report", "warnings"} \subseteq DOMAIN ret

(***************************************************************************)
(* Properties of the warnings list and of the report (Spec).               *)
(***************************************************************************)
\* the warnings added by a step
NewWarnings == SubSeq(validation_warnings', Len(validation_warnings) + 1, Len(validation_warnings'))

\* C21: every data-quality issue met during a parse becomes an entry of the
\* warnings list: the step that standardizes the labels keeps each label that
\* matches no branch (as its trimmed text) and adds a warning naming it, and
\* the steps that drop total rows or comment rows add a warning.
C21_IssuesWarned ==
  [][/\ pc = "standardize" =>
          \A c \in 1..Len(df_section.columns) :
             LET col_str == StrStrip(PyStr(df_section.columns[c]))
             IN  ~find_best_match(Text(col_str), call.config.branches).found =>
                    /\ df_section'.columns[c] = Text(col_str)
                    /\ \E k \in 1..Len(NewWarnings) :
                          \E a \in 1..Len(NewWarnings[k].args) :
                             NewWarnings[k].args[a] = Text(col_str)
     /\ (pc \in {"totals", "comments"} /\ Len(df_section'.rows) < Len(df_section.rows)) =>
          NewWarnings # <<>>]_vars

\* the steps of a section parser, from its first statement to its return
ParserStages ==
  {"find_header", "boundaries", "merged", "headers", "totals", "comments",
   "standardize", "clean", "dropna", "reset"}

\* C23: the grid a section parser reads is the sheet named by the section's
\* own <section>_sheet key, the first sheet when the key is absent.
C23_OwnSheet ==
  (pc \in ParserStages /\ section \in {"revenue", "costs", "hours"}) =>
     LET sheet_name == IF call.config[section].sheet.some
                       THEN call.config[section].sheet.v ELSE 0
     IN  df_raw = call.file.sheets[sheet_name + 1]

(***************************************************************************)
(* The parentheses rule of clean_numeric_value (SpecClean).                *)
(***************************************************************************)
\* the text of a value with the currency symbols, thousands separators and
\* whitespace taken out
CleanedText(s) == SelectSeq(s, LAMBDA ch : ch \notin {"£", "$", "€", ",", " ", "\t", "\n"})

\* s starts with "(" and ends with ")"
Wrapped(s) == Len(s) >= 2 /\ s[1] = "(" /\ s[Len(s)] = ")"

\* the number a text parses to, missing when it is no number
ParsedOrMissing(s) == IF PyFloat(s).t = "raise" THEN NaN ELSE PyFloat(s)

Negated(v) ==
  CASE v.t = "num" -> Num(-v.m, v.e)
    [] v.t = "inf" -> Inf(-v.m)
    [] OTHER       -> v

LoadedGrid ==
  call.file.sheets[(IF call.config.revenue.sheet.some THEN call.config.revenue.sheet.v ELSE 0) + 1]

\* C24: from the moment the grid is loaded, df_raw has the cells and the
\* width it was loaded with at every step of every section parser, so the
\* three parsers read the same grid, and no step changes the configuration
\* or any other argument of the call.
C24_InputsUnchanged ==
  /\ [](pc \in ParserStages \cup {"validate", "report", "done"} => df_raw = LoadedGrid)
  /\ [][pc # "load" => df_raw' = df_raw]_vars
  /\ [][call' = call]_vars

\* the three sections were parsed from a grid in which merged cells were
\* filled, and the grid still has its empty cells
C24_Witness ==
  /\ pc = "done"
  /\ call = MixedCall
  /\ parsed.revenue.present /\ parsed.costs.present /\ parsed.hours.present
  /\ \E k \in 1..Len(parsing_log) : parsing_log[k].msg = "Filled {n} merged cells"
  /\ IsNa(df_raw[2][5])
  /\ ~IsNa(parsed.revenue.df.rows[1].cells[5])

(***************************************************************************)
(* The order of the stages of a section parse (Spec).                      *)
(***************************************************************************)
\* the stages in the order the claim gives them
StageOrder ==
  <<"find_header", "boundaries", "merged", "headers", "totals", "comments",
    "standardize", "clean", "dropna", "reset">>

StageIndex(stage) == CHOOSE i \in 1..Len(StageOrder) : StageOrder[i] = stage

\* the log lines that open a stage, for the stages that log
StageLines ==
  <<"Searching for header with keywords: {keywords}",
    "Detecting data boundaries after header row {header_row}",
    "Checking for merged cells in rows {start_row} to {end_row}",
    "Checking for embedded total/sum rows",
    "Checking for comment rows",
    "Standardizing column names with fuzzy matching",
    "{section} section parsed: {rows} rows x {cols} columns">>

\* the stage lines of the log, in log order
LoggedStages ==
  LET lines == SelectSeq(parsing_log,
                         LAMBDA entry : \E i \in 1..Len(StageLines) : StageLines[i] = entry.msg)
  IN  [k \in 1..Len(lines) |-> lines[k].msg]

\* C25: a section parse moves from each stage to the next one of the fixed
\* order and never back (or leaves by an exception), and once the parsers
\* have returned, the log shows for every parsed section each logging stage
\* once, in that order: header location, boundary detection, merged-cell
\* repair, total-row removal, comment-row removal, standardization.
C25_StageOrder ==
  /\ [][(pc \in ParserStages /\ pc' # pc) =>
          \/ pc' = "raised"
          \/ pc # "reset" /\ pc' = StageOrder[StageIndex(pc) + 1]
          \/ pc = "reset" /\ pc' \in {"find_header", "validate"} /\ section' # section
          \/ pc = "find_header" /\ section = "hours" /\ pc' = "validate"]_vars
  /\ [](pc \in {"validate", "report", "done"} =>
          LoggedStages = StageLines \o StageLines \o
                         (IF parsed.hours.present THEN StageLines ELSE <<>>))

(***************************************************************************)
(* The warnings list and the report (Spec).                                *)
(***************************************************************************)
\* s is an initial part of t
IsPrefix(s, t) == Len(s) <= Len(t) /\ SubSeq(t, 1, Len(s)) = s

\* the place of a section in the order of validation
ValidationRank(name) ==
  CASE name = Text(<<"R","e","v","e","n","u","e">>) -> 1
    [] name = Text(<<"C","o","s","t","s">>)         -> 2
    [] OTHER                                        -> 3

\* the log entries that record a structural finding, a removal or a
\* fuzzy-match correction
KeyLog ==
  SelectSeq(parsing_log,
            LAMBDA entry : entry.msg \in
               {"Found header row at index {idx} with {matches} keyword matches",
                "Detected data boundaries: rows {start_row} to {end_row}",
                "Removed {removed_count} total/sum rows",
                "Removed {removed_count} potential comment rows",
                "Fuzzy matched '{col_str}' -> '{matched_name}' (score: {score:.2f})"})

\* C26: no step removes or reorders a warning; the warnings stand in the
\* order revenue, costs, hours; and the report of a finished call holds all
\* of them in that order, followed by the key log entries in log order, all
\* of them when there are at most 20 and the last 20 otherwise.
C26_Report ==
  /\ [][IsPrefix(validation_warnings, validation_warnings')]_vars
  /\ [](\A i \in 1..Len(validation_warnings) : \A j \in 1..Len(validation_warnings) :
           i < j => ValidationRank(validation_warnings[i].args[1])
                      <= ValidationRank(validation_warnings[j].args[1]))
  /\ [](pc = "done" =>
           /\ ret.validation_report.warnings = validation_warnings
           /\ ret.warnings = validation_warnings
           /\ Len(ret.validation_report.key_entries) <= 20
           /\ Len(KeyLog) <= 20 => ret.validation_report.key_entries = KeyLog
           /\ Len(KeyLog) > 20 =>
                 ret.validation_report.key_entries =
                    [k \in 1..20 |-> KeyLog[Len(KeyLog) - 20 + k]])

\* a report of three warnings, one per section, for a log of more than 20
\* key entries
C26_Witness ==
  /\ pc = "done"
  /\ Len(KeyLog) > 20
  /\ Len(ret.validation_report.warnings) = 3
  /\ ret.validation_report.warnings[1].args[1] = Text(<<"R","e","v","e","n","u","e">>)
  /\ ret.validation_report.warnings[3].args[1] = Text(<<"H","o","u","r","s">>)
  /\ ret.validation_report.key_entries[1] = KeyLog[Len(KeyLog) - 19]

(***************************************************************************)
(* The costs parser against the revenue parser (Spec).                     *)
(***************************************************************************)
\* the rows find_header_row searches by default
SearchWindow(df) == 0..(Min2(20, Len(df)) - 1)

\* no cell of the search window contains "cost" or "expense"
NoCostWords(df) ==
  \A idx \in SearchWindow(df) : \A c \in 1..Len(df[idx + 1]) :
     LET val == StrStrip(StrLower(PyStr(df[idx + 1][c])))
     IN  ~Contains(<<"c","o","s","t">>, val) /\ ~Contains(<<"e","x","p","e","n","s","e">>, val)

\* C28: when the costs parser has looked for its header, a grid in which the
\* revenue keywords (period, month, week, the branches) find a header row
\* has a costs header row too, found at that row or before it; and when no
\* cell of the search window contains "cost" or "expense" and the costs keys
\* of the configuration equal the revenue keys, the parsed costs table is
\* the parsed revenue table.
C28_CostsLikeRevenue ==
  /\ (section = "costs" /\ pc = "boundaries") =>
        LET revenue_header ==
              FirstQualifying(df_raw, <<<<"p","e","r","i","o","d">>, <<"m","o","n","t","h">>, <<"w","e","e","k">>>> \o call.config.branches,
                              0, Min2(20, Len(df_raw)), 2)
        IN  revenue_header.some =>
               /\ parsing_log[Len(parsing_log)].msg =
                     "Found header row at index {idx} with {matches} keyword matches"
               /\ header_row <= revenue_header.v
  /\ (pc \in {"validate", "report", "done"} /\ NoCostWords(df_raw) /\
      call.config.costs = call.config.revenue) =>
        parsed.costs = parsed.revenue

\* the costs table of the mixed workbook, three rows, equals its revenue
\* table
C28_Witness ==
  /\ pc = "done"
  /\ call = MixedCall
  /\ NoCostWords(df_raw)
  /\ Len(parsed.revenue.df.rows) = 3
  /\ parsed.costs = parsed.revenue

(***************************************************************************)
(* The header row of the hours section (Spec).                             *)
(***************************************************************************)
\* the header row the hours parser is to use for hours_start_row "start":
\* the first row among max(0, start - 5) .. 19 that matches two of the hours
\* keywords, else hours_header_row, else start - 1
HoursHeader(df, config) ==
  LET start == config.hours.start_row.v
      found == FirstQualifying(df, <<<<"p","e","r","i","o","d">>, <<"m","o","n","t","h">>, <<"w","e","e","k">>, <<"h","o","u","r">>, <<"h","o","u","r","s">>>> \o config.branches,
                               IF start - 5 > 0 THEN start - 5 ELSE 0,
                               IF Len(df) < 20 THEN Len(df) ELSE 20, 2)
  IN  IF found.some THEN found.v
      ELSE IF config.hours.header_row.some THEN config.hours.header_row.v
      ELSE start - 1

\* C29: the hours parser takes as header row the first row among
\* max(0, hours_start_row - 5) .. 19 that matches the hours keywords and,
\* when there is none, hours_header_row or else hours_start_row - 1; for
\* hours_start_row >= 25 no row is searched and the configured or default
\* row is used.  After the labelling step the columns carry the cells of the
\* header row when it is before hours_start_row and the positions 0, 1, ...
\* otherwise.
C29_HoursHeader ==
  (section = "hours" /\ pc \in ParserStages \ {"find_header"}) =>
     LET start    == call.config.hours.start_row.v
         absent   == IF call.config.hours.header_row.some
                     THEN call.config.hours.header_row.v ELSE start - 1
         labelled == pc \in {"totals", "comments"}
     IN  /\ header_row = HoursHeader(df_raw, call.config)
         /\ start >= 25 => header_row = absent
         /\ (labelled /\ header_row < start) =>
               \A c \in 1..Len(df_section.columns) :
                  df_section.columns[c] =
                     IF df_raw[header_row + 1][c].t = "nan" THEN Text(<<"U","n","n","a","m","e","d">>)
                     ELSE df_raw[header_row + 1][c]
         /\ (labelled /\ header_row >= start) =>
               \A c \in 1..Len(df_section.columns) : df_section.columns[c] = Num(c - 1, 0)

\* with hours_start_row = 25 the rows 19 and 22 that match the hours
\* keywords were not taken and the labels come from row 24
C29_Witness ==
  /\ section = "hours"
  /\ pc = "totals"
  /\ call = TallCall(Rows(25, 26))
  /\ header_row = 24
  /\ df_section.columns[4] = Text(<<"E","a","s","t">>)
  /\ df_section.columns[5] = Text(<<"U","n","n","a","m","e","d">>)

(***************************************************************************)
(* The Drive watcher of src/gdrive_watcher.py (SpecSync).  A call of       *)
(* sync_once is one step: call holds the watcher's synced_files before the *)
(* call, the listing list_drive_files returns and the ids whose download   *)
(* raises; ret holds new_downloads, synced_files after the call, the sync  *)
(* log on disk, and the ids download_file was called for.                  *)
(***************************************************************************)
MaxDriveFiles == 2

DriveIds == 1..MaxDriveFiles

\* modifiedTime values, the later the greater
ModifiedTimes == {1, 2}

DriveName(id) == Digits(id) \o <<".","x","l","s","x">>

\* orderBy="modifiedTime desc"
RECURSIVE NewestFirst(_)
NewestFirst(files) ==
  IF files = {} THEN <<>>
  ELSE LET first == CHOOSE f \in files : \A g \in files :
                       \/ f.modifiedTime > g.modifiedTime
                       \/ f.modifiedTime = g.modifiedTime /\ f.id <= g.id
       IN  <<first>> \o NewestFirst(files \ {first})

DriveListings ==
  {NewestFirst({[id |-> i, name |-> DriveName(i), modifiedTime |-> m[i]] : i \in S}) :
     S \in SUBSET DriveIds, m \in [DriveIds -> ModifiedTimes]}

\* the sync log data/.gdrive_sync.json: absent, or the saved synced_files
NoLog == [exists |-> FALSE, files |-> <<>>]

_load_sync_log(sync_log) == IF sync_log.exists THEN sync_log.files ELSE <<>>

\* json.dump(self.synced_files, f, indent=2)
_save_sync_log(synced_files) == [exists |-> TRUE, files |-> synced_files]

\* a test that looks for the id only and not at the modified time
NeedsSync_new_only(synced_files, file) == file.id \notin DOMAIN synced_files

\* file_id not in self.synced_files or
\* self.synced_files[file_id]['modified'] != modified_time
NeedsSync(synced_files, file) ==
  \/ file.id \notin DOMAIN synced_files
  \/ synced_files[file.id].modified # file.modifiedTime

\* self.synced_files[file_id] = {...}
Recorded(synced_files, file) ==
  [id \in DOMAIN synced_files \cup {file.id} |->
     IF id = file.id THEN [name |-> file.name, modified |-> file.modifiedTime]
     ELSE synced_files[id]]

\* the loop "for file in drive_files" from its i-th file on
RECURSIVE SyncLoop(_, _, _, _)
SyncLoop(drive_files, i, failing, self) ==
  IF i > Len(drive_files) THEN self
  ELSE LET file == drive_files[i]
       IN  IF ~NeedsSync(self.synced_files, file)
           THEN SyncLoop(drive_files, i + 1, failing, self)
           ELSE IF file.id \in failing
           THEN SyncLoop(drive_files, i + 1, failing,
                         [self EXCEPT !.attempted = @ \cup {file.id},
                                      !.failed = @ \cup {file.id}])
           ELSE SyncLoop(drive_files, i + 1, failing,
                         [self EXCEPT !.attempted = @ \cup {file.id},
                                      !.synced_files = Recorded(@, file),
                                      !.new_downloads = Append(@, file.name)])

sync_once(synced_files, sync_log, drive_files, failing) ==
  LET done == SyncLoop(drive_files, 1, failing,
                       [synced_files |-> synced_files, new_downloads |-> <<>>,
                        attempted |-> {}, failed |-> {}])
  IN  [t             |-> "return",
       new_downloads |-> done.new_downloads,
       synced_files  |-> done.synced_files,
       sync_log      |-> IF done.new_downloads # <<>> THEN _save_sync_log(done.synced_files)
                         ELSE sync_log,
       attempted     |-> done.attempted,
       failed        |-> done.failed]

\* GDriveWatcher() in a data directory without a sync log
InitSync ==
  /\ call = [fn |-> "GDriveWatcher", synced_files |-> <<>>, drive_files |-> <<>>,
             failing |-> {}]
  /\ ret = [t |-> "return", new_downloads |-> <<>>, synced_files |-> _load_sync_log(NoLog),
            sync_log |-> NoLog, attempted |-> {}, failed |-> {}]
  /\ Idle

\* self.sync_once() on a watcher whose synced_files is "loaded"
SyncStep(loaded) ==
  \E drive_files \in DriveListings :
     \E failing \in SUBSET {drive_files[k].id : k \in 1..Len(drive_files)} :
        /\ call' = [fn |-> "sync_once", synced_files |-> loaded,
                    drive_files |-> drive_files, failing |-> failing]
        /\ ret' = sync_once(loaded, ret.sync_log, drive_files, failing)
        /\ UNCHANGED pvars

\* watch: the next self.sync_once() of the same watcher
WatchLoop == SyncStep(ret.synced_files)

\* check_and_sync_drive: a new GDriveWatcher, which loads the sync log, and
\* its sync_once()
CheckAndSync == SyncStep(_load_sync_log(ret.sync_log))

NextSync == WatchLoop \/ CheckAndSync

SpecSync == InitSync /\ [][NextSync]_vars

\* the files of a listing
Listed(drive_files) == {drive_files[k] : k \in 1..Len(drive_files)}

\* C30: in every sync_once call download_file is called for a listed file
\* exactly when its id is not in the sync record or is recorded with another
\* modified time, and the file is downloaded and recorded with the listed
\* time exactly when that call does not fail; a file whose download fails
\* leaves its record as it was, the other files of the call are synced all
\* the same, and when the next call lists it again it is attempted again;
\* after a call without a failure a call with the same listing downloads
\* nothing.
C30_DriveSync ==
  /\ [](call.fn = "sync_once" =>
          \A file \in Listed(call.drive_files) :
             LET known  == file.id \in DOMAIN call.synced_files
                 wanted == ~known \/ call.synced_files[file.id].modified # file.modifiedTime
             IN  /\ file.id \in ret.attempted <=> wanted
                 /\ (\E k \in 1..Len(ret.new_downloads) : ret.new_downloads[k] = file.name)
                       <=> (wanted /\ file.id \notin call.failing)
                 /\ (wanted /\ file.id \notin call.failing) =>
                       /\ file.id \in DOMAIN ret.synced_files
                       /\ ret.synced_files[file.id].modified = file.modifiedTime
                 /\ ~(wanted /\ file.id \notin call.failing) =>
                       /\ file.id \in DOMAIN ret.synced_files <=> known
                       /\ known => ret.synced_files[file.id] = call.synced_files[file.id])
  /\ [][call.fn = "sync_once" =>
          /\ \A file \in Listed(call.drive_files) \cap Listed(call'.drive_files) :
                file.id \in ret.failed => file.id \in ret'.attempted
          /\ (ret.failed = {} /\ call'.drive_files = call.drive_files) =>
                (ret'.attempted = {} /\ ret'.new_downloads = <<>>)]_vars

\* a call in which the download of the newest file failed and the other
\* file, changed since it was recorded, was downloaded
C30_Witness ==
  /\ call.fn = "sync_once"
  /\ Len(call.drive_files) = 2
  /\ call.drive_files[1].id \in ret.failed
  /\ call.drive_files[2].id \in DOMAIN call.synced_files
  /\ ret.new_downloads = <<call.drive_files[2].name>>
  /\ ret.synced_files[call.drive_files[2].id].modified # call.synced_files[call.drive_files[2].id].modified

(***************************************************************************)
(* Several load_excel_data calls in one process (SpecThreads).  The        *)
(* variables hold the call that has the processor; a second call waits in  *)
(* invocations.waiting with its own locals and parser, and every returned  *)
(* or raised call is kept in invocations.finished with its result.         *)
(***************************************************************************)
ThreadCalls == {WideCall, EndToEndCall}

\* the locals and the parser of the call that has the processor
Frame ==
  [call |-> call, ret |-> ret, pc |-> pc, section |-> section, df_raw |-> df_raw,
   header_row |-> header_row, start_row |-> start_row, end_row |-> end_row,
   df_section |-> df_section, parsed |-> parsed,
   validation_warnings |-> validation_warnings, parsing_log |-> parsing_log]

Returned(frame) == frame.pc \in {"done", "raised"}

\* load_excel_data(file_path, config) entered: no local is bound yet, and
\* there is no parser before Load makes one
Enter(c) ==
  /\ call' = c
  /\ ret' = Pending
  /\ pc' = "load"
  /\ section' = "none"
  /\ df_raw' = <<>>
  /\ header_row' = 0
  /\ start_row' = 0
  /\ end_row' = 0
  /\ df_section' = EmptyTable
  /\ parsed' = [revenue |-> NoneDf, costs |-> NoneDf, hours |-> NoneDf]
  /\ validation_warnings' = <<>>
  /\ parsing_log' = <<>>

\* the next call of a thread whose call has returned or raised
Invoke ==
  /\ Returned(Frame)
  /\ \E c \in ThreadCalls : Enter(c)
  /\ invocations' = [invocations EXCEPT
                       !.finished = @ \cup {[call |-> call, ret |-> ret]}]

\* a call of a second thread, entered while the first is under way
InvokeConcurrently ==
  /\ ~Returned(Frame)
  /\ invocations.waiting = <<>>
  /\ \E c \in ThreadCalls : Enter(c)
  /\ invocations' = [invocations EXCEPT !.waiting = <<Frame>>]

\* the processor passes to the waiting call
SwitchThread ==
  /\ invocations.waiting # <<>>
  /\ LET frame == invocations.waiting[1]
     IN  /\ call' = frame.call
         /\ ret' = frame.ret
         /\ pc' = frame.pc
         /\ section' = frame.section
         /\ df_raw' = frame.df_raw
         /\ header_row' = frame.header_row
         /\ start_row' = frame.start_row
         /\ end_row' = frame.end_row
         /\ df_section' = frame.df_section
         /\ parsed' = frame.parsed
         /\ validation_warnings' = frame.validation_warnings
         /\ parsing_log' = frame.parsing_log
  /\ invocations' = [invocations EXCEPT !.waiting = <<Frame>>]

InitThreads ==
  /\ call \in ThreadCalls
  /\ ret = Pending
  /\ pc = "load"
  /\ section = "none"
  /\ df_raw = <<>>
  /\ header_row = 0
  /\ start_row = 0
  /\ end_row = 0
  /\ df_section = EmptyTable
  /\ parsed = [revenue |-> NoneDf, costs |-> NoneDf, hours |-> NoneDf]
  /\ validation_warnings = <<>>
  /\ parsing_log = <<>>
  /\ invocations = NoInvocations

NextThreads == Next \/ Invoke \/ InvokeConcurrently \/ SwitchThread

SpecThreads == InitThreads /\ [][NextThreads]_vars

\* the calls that have returned or raised, each with its result
Results ==
  invocations.finished
  \cup {[call |-> f.call, ret |-> f.ret] :
          f \in {g \in {Frame} \cup {invocations.waiting[k] : k \in 1..Len(invocations.waiting)} :
                   Returned(g)}}

\* the "Loading Excel file" lines of a log
LoadingLines(log) ==
  SelectSeq(log, LAMBDA e : e = Info("Loading Excel file: {file_path}", <<>>))

\* C22: whatever calls came before and whichever call runs in between, a
\* call returns the same tables, warnings and report for the same file and
\* configuration, so what it returns depends on no other call; and the log
\* of the parser of a call past its first statement begins with that call's
\* own "Loading Excel file" line and holds no second one.
C22_FreshLists ==
  /\ \A a \in Results : \A b \in Results : a.call = b.call => a.ret = b.ret
  /\ \A f \in {Frame} \cup {invocations.waiting[k] : k \in 1..Len(invocations.waiting)} :
        /\ f.pc # "load" =>
           /\ Len(LoadingLines(f.parsing_log)) = 1
           /\ f.parsing_log[1] = Info("Loading Excel file: {file_path}", <<>>)
        /\ f.pc \in ParserStages \ {"load"} => f.validation_warnings = <<>>

\* a call has returned warnings for the second time, the first time before
\* the call of another file was entered, which now waits in the middle of
\* its validation with a warning of its own
C22_Witness ==
  /\ pc = "done"
  /\ ret.warnings # <<>>
  /\ [call |-> call, ret |-> ret] \in invocations.finished
  /\ invocations.waiting # <<>>
  /\ invocations.waiting[1].call # call
  /\ invocations.waiting[1].pc = "validate"
  /\ invocations.waiting[1].validation_warnings # <<>>

====
